---------------------------- MODULE Spec2Model ----------------------------
(***************************************************************************)
(* Lua TZ (src/src/tz.c, release 1.0.0): time zone lookups on TZif data    *)
(* and the proleptic Gregorian calendar arithmetic of tz.info, tz.date and *)
(* tz.time.                                                                *)
(*                                                                         *)
(* Number representation.  A C int is a 32-bit value; every int operation  *)
(* of the source is translated by a checked operator that works on records *)
(* [v, ub]: v is the value and ub says that a signed overflow (undefined   *)
(* behaviour) happened on the way.  An int64_t time is a record [e, d, s]  *)
(* that stands for e * ERA + d * 86400 + s seconds with 0 <= s < 86400,    *)
(* where ERA = 86400 * (2^63 div 86400) = 2^63 - 55808, so that the        *)
(* Julian-day-0 time -210866803200 is [e |-> 0, d |-> -2440588, s |-> 0],  *)
(* 2^63 - 1 is [e |-> 1, d |-> 0, s |-> 55807], and all times within 2^31  *)
(* days of the epoch and of the ends of int64_t are representable.         *)
(***************************************************************************)
EXTENDS Integers, Sequences, FiniteSets, TLC

\* ------------------------------------------------------------------------
\* Program constants (src/tz.h)
\* ------------------------------------------------------------------------
LUATZ_EPOCH == 2440588
LUATZ_J0_YEAR == -4713
INT_MAX == 2147483647
INT_MIN == -INT_MAX - 1
SECS_PER_DAY == 86400

\* ------------------------------------------------------------------------
\* C int arithmetic (32 bit, signed overflow is undefined behaviour)
\* ------------------------------------------------------------------------
K(n) == [v |-> n, ub |-> FALSE]
Undef == [v |-> 0, ub |-> TRUE]

AddOvf(a, b) == \/ b > 0 /\ a > INT_MAX - b
                \/ b < 0 /\ a < INT_MIN - b
SubOvf(a, b) == \/ b < 0 /\ a > INT_MAX + b
                \/ b > 0 /\ a < INT_MIN + b
\* k is a positive constant of the source
MulOvf(k, a) == \/ a > INT_MAX \div k
                \/ a < (INT_MIN + k - 1) \div k

\* x + y, x - y on ints
IAdd(x, y) == IF x.ub \/ y.ub \/ AddOvf(x.v, y.v) THEN Undef ELSE K(x.v + y.v)
ISub(x, y) == IF x.ub \/ y.ub \/ SubOvf(x.v, y.v) THEN Undef ELSE K(x.v - y.v)
\* k * x for a positive literal k
IMul(k, x) == IF x.ub \/ MulOvf(k, x.v) THEN Undef ELSE K(k * x.v)

\* C division and remainder truncate towards zero; k is a positive literal
TruncDiv(a, k) == IF a >= 0 THEN a \div k ELSE (a + k - 1) \div k
TruncMod(a, k) == a - k * TruncDiv(a, k)
IDiv(x, k) == IF x.ub THEN Undef ELSE K(TruncDiv(x.v, k))
IMod(x, k) == IF x.ub THEN Undef ELSE K(TruncMod(x.v, k))

\* ------------------------------------------------------------------------
\* int64_t times as records [e, d, s] = e * ERA + d * 86400 + s
\* ------------------------------------------------------------------------
\* 2^63 - ERA, and the days of an era (2^63 div 86400) modulo 2^32
ERA_REST == 55808
ERA_DAYS_32 == 579025220

Time(d, s) == [e |-> 0, d |-> d, s |-> s]
INT64_MAX == [e |-> 1, d |-> 0, s |-> ERA_REST - 1]
INT64_MIN == [e |-> -1, d |-> -1, s |-> SECS_PER_DAY - ERA_REST]
\* the int64_t value of an int n (integer promotion)
TimeOfInt(n) == Time(n \div SECS_PER_DAY, n % SECS_PER_DAY)
\* days * (int64_t)86400
TimeOfDays(n) == Time(n, 0)
\* t + n, t - n for an int n, as mathematical values
TAddInt(t, n) ==
    LET q == n \div SECS_PER_DAY
        r == n % SECS_PER_DAY
    IN  IF t.s + r >= SECS_PER_DAY
        THEN [t EXCEPT !.d = t.d + q + 1, !.s = t.s + r - SECS_PER_DAY]
        ELSE [t EXCEPT !.d = t.d + q, !.s = t.s + r]
TSubInt(t, n) ==
    LET q == n \div SECS_PER_DAY
        r == n % SECS_PER_DAY
    IN  IF t.s - r < 0
        THEN [t EXCEPT !.d = t.d - q - 1, !.s = t.s - r + SECS_PER_DAY]
        ELSE [t EXCEPT !.d = t.d - q, !.s = t.s - r]
\* a - b on times
TSub(a, b) ==
    IF a.s - b.s < 0
    THEN [e |-> a.e - b.e, d |-> a.d - b.d - 1,
          s |-> a.s - b.s + SECS_PER_DAY]
    ELSE [e |-> a.e - b.e, d |-> a.d - b.d, s |-> a.s - b.s]
TLe(a, b) ==
    \/ a.e < b.e
    \/ a.e = b.e /\ (a.d < b.d \/ (a.d = b.d /\ a.s <= b.s))
TLt(a, b) ==
    \/ a.e < b.e
    \/ a.e = b.e /\ (a.d < b.d \/ (a.d = b.d /\ a.s < b.s))
TNeg(t) == t.e < 0 \/ (t.e = 0 /\ t.d < 0)
\* the value is one of an int64_t
Fits64(t) == TLe(INT64_MIN, t) /\ TLe(t, INT64_MAX)
\* the value modulo 2^64 = 2 * ERA + 2 * ERA_REST, for a value that is less
\* than 2^63 outside int64_t
Wrap64(t) ==
    IF Fits64(t) THEN t
    ELSE IF t.e > 0 THEN TSubInt([t EXCEPT !.e = t.e - 2], 2 * ERA_REST)
    ELSE TAddInt([t EXCEPT !.e = t.e + 2], 2 * ERA_REST)
\* C's t / 86400 and t % 86400 (truncating) on an int64_t; of the quotient,
\* the days within the era of t
TQuot(t) == IF ~TNeg(t) \/ t.s = 0 THEN t.d ELSE t.d + 1
TRem(t) == IF ~TNeg(t) \/ t.s = 0 THEN t.s ELSE t.s - SECS_PER_DAY
\* a + b of int64_t values that fit int, converted to int: the value modulo
\* 2^32 (implementation-defined; this is what gcc and clang define)
ConvAdd(a, b) ==
    IF b > 0 /\ a > INT_MAX - b THEN (a + INT_MIN) + (b + INT_MIN)
    ELSE IF b < 0 /\ a < INT_MIN - b THEN (a - INT_MIN) + (b - INT_MIN)
    ELSE a + b

\* LUATZ_J0_TIME = -210866803200 = -2440588 * 86400
LUATZ_J0_TIME == Time(-2440588, 0)

\* ------------------------------------------------------------------------
\* Calendar (utilities, tz_date and tz_time of src/src/tz.c)
\* ------------------------------------------------------------------------
DAYS_PER_MONTH ==
    << <<31, 28, 31, 30, 31, 30, 31, 31, 30, 31, 30, 31>>,
       <<31, 29, 31, 30, 31, 30, 31, 31, 30, 31, 30, 31>> >>

\* year % 4 == 0 && (year % 100 != 0 || year % 400 == 0), as a C truth value
IsLeap(year) ==
    IF TruncMod(year, 4) = 0
       /\ (TruncMod(year, 100) # 0 \/ TruncMod(year, 400) = 0)
    THEN 1 ELSE 0

\* days(year, month); an index outside the table is an out-of-bounds read
days(year, month) ==
    IF month \in 1..12 THEN K(DAYS_PER_MONTH[IsLeap(year) + 1][month]) ELSE Undef

\* for (i = 1; i < month; i++) yday += days(year, i);  run from i with yday
RECURSIVE YdayLoop(_, _, _, _)
YdayLoop(year, month, i, yday) ==
    IF yday.ub \/ ~(i < month) THEN yday
    ELSE YdayLoop(year, month, i + 1, IAdd(yday, days(year, i)))

\* An assignment f = x to an int variable of a function, whose variables
\* are the fields of v: once an operation has overflowed (ub), the values of
\* the variables mean nothing
Put(v, f, x) ==
    IF v.ub \/ x.ub THEN [v EXCEPT !.ub = TRUE] ELSE [v EXCEPT ![f] = x.v]

\* The "make date" block of tz_date for a local time t >= LUATZ_J0_TIME (the
\* offset is already added), one operator per assignment.
\* sec = t % 86400; if (sec < 0) sec += 86400; hour, min, sec from sec
DateClock(sec) ==
    [ub |-> FALSE, hour |-> TruncDiv(sec, 3600),
     min |-> TruncDiv(TruncMod(sec, 3600), 60),
     sec |-> TruncMod(TruncMod(sec, 3600), 60),
     jd |-> 0, l |-> 0, n |-> 0, i |-> 0, j |-> 0, day |-> 0, month |-> 0,
     year |-> 0, wday |-> 0, wub |-> FALSE, yday |-> 0]
\* if (t < 0) t -= 86399; jd = t / 86400 + LUATZ_EPOCH; the int64_t sum is
\* converted to int
DateJd(t) ==
    Put(DateClock(IF TRem(t) < 0 THEN TRem(t) + SECS_PER_DAY ELSE TRem(t)),
        "jd",
        K(ConvAdd(ConvAdd(TQuot(IF TNeg(t) THEN TSubInt(t, 86399) ELSE t),
                          LUATZ_EPOCH),
                  t.e * ERA_DAYS_32)))
\* l = jd + 68569
DateL1(v) == Put(v, "l", IAdd(K(v.jd), K(68569)))
\* n = (4 * l) / 146097
DateN(v) == Put(v, "n", IDiv(IMul(4, K(v.l)), 146097))
\* l = l - (146097 * n + 3) / 4
DateL2(v) ==
    Put(v, "l", ISub(K(v.l), IDiv(IAdd(IMul(146097, K(v.n)), K(3)), 4)))
\* i = (4000 * (l + 1)) / 1461001
DateI(v) == Put(v, "i", IDiv(IMul(4000, IAdd(K(v.l), K(1))), 1461001))
\* l = l - (1461 * i) / 4 + 31
DateL3(v) ==
    Put(v, "l", IAdd(ISub(K(v.l), IDiv(IMul(1461, K(v.i)), 4)), K(31)))
\* j = (80 * l) / 2447
DateJ(v) == Put(v, "j", IDiv(IMul(80, K(v.l)), 2447))
\* day = l - (2447 * j) / 80
DateDay(v) == Put(v, "day", ISub(K(v.l), IDiv(IMul(2447, K(v.j)), 80)))
\* l = j / 11
DateL4(v) == Put(v, "l", IDiv(K(v.j), 11))
\* month = j + 2 - (12 * l)
DateMonth(v) ==
    Put(v, "month", ISub(IAdd(K(v.j), K(2)), IMul(12, K(v.l))))
\* year = 100 * (n - 49) + i + l
DateYear(v) ==
    Put(v, "year",
        IAdd(IAdd(IMul(100, ISub(K(v.n), K(49))), K(v.i)), K(v.l)))
\* wday = (jd + 1) % 7 + 1; it is computed from jd alone, so an overflow in
\* l, n, i, j does not reach it
DateWday(v) ==
    [v EXCEPT !.wday = IAdd(IMod(IAdd(K(v.jd), K(1)), 7), K(1)).v,
              !.wub = IAdd(IMod(IAdd(K(v.jd), K(1)), 7), K(1)).ub]
\* yday = 0; for (...) yday += days(year, i); yday += day
DateYday(v) ==
    Put(v, "yday",
        IF v.ub THEN Undef
        ELSE IAdd(YdayLoop(v.year, v.month, 1, K(0)), K(v.day)))

MakeDate(t) ==
    DateYday(DateWday(DateYear(DateMonth(DateL4(DateDay(DateJ(DateL3(DateI(
        DateL2(DateN(DateL1(DateJd(t)))))))))))))

\* Month normalisation of tz_time: the variables year and month after
\* if (month < 1) { year += (month - 12) / 12; month = month % 12 + 12; }
NormLow(v) ==
    IF ~(v.month < 1) THEN v
    ELSE Put(Put(v, "year",
                 IAdd(K(v.year), IDiv(ISub(K(v.month), K(12)), 12))),
             "month", IAdd(IMod(K(v.month), 12), K(12)))
\* if (month > 12) { year += (month - 1) / 12; month = (month - 1) % 12 + 1; }
NormHigh(v) ==
    IF v.ub \/ ~(v.month > 12) THEN v
    ELSE Put(Put(v, "year",
                 IAdd(K(v.year), IDiv(ISub(K(v.month), K(1)), 12))),
             "month", IAdd(IMod(ISub(K(v.month), K(1)), 12), K(1)))
NormMonth(year, month) ==
    NormHigh(NormLow([ub |-> FALSE, year |-> year, month |-> month]))

\* The Julian day minus the epoch, an int; m14 is (month - 14) / 12
JulianOf(year, month, day, m14) ==
    ISub(ISub(IAdd(ISub(IAdd(
        IDiv(IMul(1461, IAdd(IAdd(K(year), K(4800)), m14)), 4),
        IDiv(IMul(367, ISub(ISub(K(month), K(2)), IMul(12, m14))), 12)),
        IDiv(IMul(3, IDiv(IAdd(IAdd(K(year), K(4900)), m14), 100)), 4)),
        K(day)), K(32075)), K(LUATZ_EPOCH))
JulianDays(year, month, day) ==
    JulianOf(year, month, day, IDiv(ISub(K(month), K(14)), 12))

\* days * (int64_t)86400 + hour * 3600 + min * 60 + sec: the products of
\* hour and min are int products, the sums are int64_t sums
TimeSum(jdn, h, m, sec) ==
    IF jdn.ub \/ h.ub \/ m.ub THEN [ub |-> TRUE, t |-> Time(0, 0)]
    ELSE [ub |-> FALSE,
          t |-> TAddInt(TAddInt(TAddInt(TimeOfDays(jdn.v), h.v), m.v), sec)]

\* The time composed by tz_time from the normalised year and month
MakeTime(year, month, day, hour, min, sec) ==
    TimeSum(JulianDays(year, month, day), IMul(3600, K(hour)),
            IMul(60, K(min)), sec)

\* ------------------------------------------------------------------------
\* TZ data (struct tz_type, struct tz_data) and tz_find
\* ------------------------------------------------------------------------
\* struct tz_type
Type(gmtoff, isdst, abbrind) ==
    [gmtoff |-> gmtoff, isdst |-> isdst, abbrind |-> abbrind]

\* struct tz_data; timetypes holds C indices (0-based), the sequences are
\* 1-based, hence the + 1 of the accessors
Zone(timevalues, timetypes, types, chars) ==
    [timecnt |-> Len(timevalues), typecnt |-> Len(types),
     charcnt |-> Len(chars), timevalues |-> timevalues,
     timetypes |-> timetypes, types |-> types, chars |-> chars]

\* data->timevalues[i], data->types[data->timetypes[i]] for 0 <= i < timecnt
TimeValue(data, i) == data.timevalues[i + 1]
TypeAt(data, i) == data.types[data.timetypes[i + 1] + 1]

\* FindTest with the reverse loop comparing t itself, not t - gmtoff
FindTestNoOff(data, t, reverse, mid) == TLe(TimeValue(data, mid), t)

\* FindTest with < where the reverse loop has <=
FindTestBefore(data, t, reverse, mid) ==
    IF reverse = 0
    THEN TLe(TimeValue(data, mid), t)
    ELSE TLt(TimeValue(data, mid), TSubInt(t, TypeAt(data, mid).gmtoff))

\* FindTest with < where the forward loop has <=
FindTestStrict(data, t, reverse, mid) ==
    IF reverse = 0
    THEN TLt(TimeValue(data, mid), t)
    ELSE TLe(TimeValue(data, mid), TSubInt(t, TypeAt(data, mid).gmtoff))

\* the test of the forward loop (reverse = 0) and of the reverse loop
FindTest(data, t, reverse, mid) ==
    IF reverse = 0
    THEN TLe(TimeValue(data, mid), t)
    ELSE TLe(TimeValue(data, mid), TSubInt(t, TypeAt(data, mid).gmtoff))

\* while (lower <= upper) { ... }: the value of upper when the loop ends
RECURSIVE FindLoop(_, _, _, _, _)
FindLoop(data, t, reverse, lower, upper) ==
    IF ~(lower <= upper) THEN upper
    ELSE LET mid == (lower + upper) \div 2
         IN  IF FindTest(data, t, reverse, mid)
             THEN FindLoop(data, t, reverse, mid + 1, upper)
             ELSE FindLoop(data, t, reverse, lower, mid - 1)

\* HourA without its last operand, the test of the range
HourANoRange(data, t, isdst, upper) ==
    /\ isdst >= 0
    /\ TypeAt(data, upper).isdst # isdst
    /\ upper > 0
    /\ TypeAt(data, upper - 1).isdst = isdst

\* HourA with == where the code has != in its second operand
HourASameFlag(data, t, isdst, upper) ==
    /\ isdst >= 0
    /\ TypeAt(data, upper).isdst = isdst
    /\ upper > 0
    /\ TypeAt(data, upper - 1).isdst = isdst
    /\ TLt(TSub(TSubInt(t, TypeAt(data, upper).gmtoff), TimeValue(data, upper)),
           TimeOfInt(TypeAt(data, upper - 1).gmtoff - TypeAt(data, upper).gmtoff))

\* the condition of the if that selects 'hour a', for upper > 0
HourA(data, t, isdst, upper) ==
    /\ isdst >= 0
    /\ TypeAt(data, upper).isdst # isdst
    /\ upper > 0
    /\ TypeAt(data, upper - 1).isdst = isdst
    /\ TLt(TSub(TSubInt(t, TypeAt(data, upper).gmtoff), TimeValue(data, upper)),
           TimeOfInt(TypeAt(data, upper - 1).gmtoff - TypeAt(data, upper).gmtoff))

\* return upper >= 0 ? &data->types[data->timetypes[upper]] : &data->types[0]
FindType(data, upper) ==
    IF upper >= 0 THEN TypeAt(data, upper) ELSE data.types[1]

\* the rest of tz_find once the loop has ended at found.  The result names
\* found, the index used (upper) and the type returned.  When the reverse
\* search ends at -1 and isdst is given, the first operand of the if reads
\* timetypes[-1], outside the array (oob); whatever is read there, the
\* operand upper > 0 is false and upper stays -1.
FindFrom(data, t, isdst, reverse, found) ==
    LET upper == IF reverse # 0 /\ found >= 0 /\ HourA(data, t, isdst, found)
                 THEN found - 1 ELSE found
    IN  [found |-> found, upper |-> upper,
         oob |-> reverse # 0 /\ isdst >= 0 /\ found < 0,
         type |-> FindType(data, upper)]

tz_find(data, t, isdst, reverse) ==
    FindFrom(data, t, isdst, reverse,
             FindLoop(data, t, reverse, 0, data.timecnt - 1))

\* ------------------------------------------------------------------------
\* TZ files and the TZ cache (tz_read, tz_data)
\* ------------------------------------------------------------------------
LUATZ_LOCALTIME == "localtime"
LUATZ_UTC == "UTC"

\* a Lua value that may be nil: <<>> is nil, <<v>> is v
Nil == <<>>
Some(v) == <<v>>

\* struct tz_header as the file holds it: the magic, the version byte and
\* the six counts (after be32toh, as int32_t)
Header(magic, version, isgmtcnt, isstdcnt, leapcnt, timecnt, typecnt, charcnt) ==
    [magic |-> magic, version |-> version, isgmtcnt |-> isgmtcnt,
     isstdcnt |-> isstdcnt, leapcnt |-> leapcnt, timecnt |-> timecnt,
     typecnt |-> typecnt, charcnt |-> charcnt]
NoHeader == Header("", 0, 0, 0, 0, 0, 0, 0)

\* '\0', '2' and '3'
VERSION_1 == 0
VERSION_2 == 50
VERSION_3 == 51

\* sizeof(struct tz_header), TZ_TYPE_PACKED
TZ_HEADER_SIZE == 44
TZ_TYPE_PACKED == 6

\* the offset tz_read passes to fseek: the length of the block that follows
\* the first header, by the counts of that header.  The terms are size_t and
\* the parameter is long, so the offset is the sum as a signed number.
SeekOffset(h) ==
    h.timecnt * 5 + h.typecnt * TZ_TYPE_PACKED + h.charcnt + h.leapcnt * 8
    + h.isstdcnt + h.isgmtcnt

\* the bytes of the arrays tz_read reads after the header
DataSize(h, read64) ==
    h.timecnt * (IF read64 THEN 9 ELSE 5) + h.typecnt * TZ_TYPE_PACKED
    + h.charcnt

\* the greatest abbreviation index of the types, 0 when there is none
MaxAbbrind(types) ==
    IF types = <<>> THEN 0
    ELSE CHOOSE a \in {types[i].abbrind : i \in 1..Len(types)} :
            \A i \in 1..Len(types) : types[i].abbrind <= a

\* an abbreviation pool for the types: a NUL before each abbreviation but
\* the first and one at the end (three bytes after the start of the last
\* abbreviation), letters elsewhere
PoolUpTo(types, top) ==
    [p \in 1..(top + 4) |->
        IF p = top + 4 \/ \E i \in 1..Len(types) : types[i].abbrind = p
        THEN 0 ELSE 65]
Pool(types) == PoolUpTo(types, MaxAbbrind(types))

\* The file a path names, as stat, fopen and tz_read find it: its size, the
\* header at offset 0, the second header and its offset if there is one, the
\* arrays that follow the last header (the transitions in timevalues as
\* int64_t values behind a second header, in words as big-endian words of
\* four bytes else), and in fault the step of the load at which the host
\* fails ("" when none does).  A path that names nothing is NoFile.
RawFile(size, header, second, timevalues, words, timetypes, types, chars) ==
    [exists |-> TRUE, fault |-> "", size |-> size, header |-> header,
     second |-> second, timevalues |-> timevalues, words |-> words,
     timetypes |-> timetypes, types |-> types, chars |-> chars]

\* a version 1 file: one header and one block
File32(h, words, timetypes, types, chars) ==
    RawFile(TZ_HEADER_SIZE + DataSize(h, FALSE), h, Nil, <<>>, words,
            timetypes, types, chars)

\* a file of version 2 or 3: the first header, its block (skipped), then
\* the second header h and its block
File64(first, h, timevalues, timetypes, types, chars) ==
    RawFile(2 * TZ_HEADER_SIZE + SeekOffset(first) + DataSize(h, TRUE), first,
            Some([at |-> TZ_HEADER_SIZE + SeekOffset(first), header |-> h]),
            timevalues, <<>>, timetypes, types, chars)

\* the version 2 file with these arrays, the first block as long as the
\* second has entries
FileOf(h, timevalues, timetypes, types) ==
    File64(h, h, timevalues, timetypes, types, Pool(types))
File(timevalues, timetypes, types) ==
    FileOf(Header("TZif", VERSION_2, 0, 0, 0, Len(timevalues), Len(types),
                  Len(Pool(types))), timevalues, timetypes, types)
NoFile == [exists |-> FALSE, fault |-> "", size |-> 0, header |-> NoHeader,
           second |-> Nil, timevalues |-> <<>>, words |-> <<>>,
           timetypes |-> <<>>, types |-> <<>>, chars |-> <<>>]
Faulty(fault, file) == [file EXCEPT !.fault = fault]
Faults == {"notreg", "open", "header", "seek", "alloc", "data"}

\* fread(header, sizeof(struct tz_header), 1, f) at offset pos: Nil when
\* the file ends before pos + 44; bytes that are no header elsewhere than at
\* the two offsets
ReadAt(file, pos) ==
    IF file.fault = "header" \/ pos + TZ_HEADER_SIZE > file.size THEN Nil
    ELSE IF pos = 0 THEN Some(file.header)
    ELSE IF file.second # Nil /\ pos = file.second[1].at
    THEN Some(file.second[1].header)
    ELSE Some(NoHeader)

\* (size_t)n > limit for an int32_t n: a negative n converts to a value
\* above every file size
Exceeds(n, limit) == n < 0 \/ n > limit

\* the sanity checks of tz_readheader
Malformed(h, size) ==
    \/ Exceeds(h.timecnt, size)
    \/ Exceeds(h.typecnt, size \div TZ_TYPE_PACKED)
    \/ Exceeds(h.charcnt, size)
    \/ h.typecnt = 0

\* an error exit of tz_readheader: fclose(f), luaL_error
HeaderFail(err) ==
    [err |-> err, header |-> NoHeader, fio |-> <<"fread", "fclose">>]

\* tz_readheader after fread has given h (Nil when it has given nothing)
HeaderCheck(h, size) ==
    IF h = Nil THEN HeaderFail("cannot read TZ file header")
    ELSE IF h[1].magic # "TZif" THEN HeaderFail("TZ file magic mismatch")
    ELSE IF h[1].version \notin {VERSION_1, VERSION_2, VERSION_3}
    THEN HeaderFail("unsupported TZ file version")
    ELSE IF Malformed(h[1], size) THEN HeaderFail("malformed TZ file")
    ELSE [err |-> "", header |-> h[1], fio |-> <<"fread">>]

\* tz_readheader at offset pos: the error it raises ("" when the header
\* passes), the header, and the stdio calls it makes on f
tz_readheader(file, pos) == HeaderCheck(ReadAt(file, pos), file.size)

\* the uint32_t 65536 * hi + lo as a time, for hi512 = 512 * hi: 65536 is
\* 512 / 675 of a day
Uint32(hi512, lo) ==
    TAddInt(Time(hi512 \div 675, (hi512 % 675) * 128), lo)

\* be32toh of the int32_t whose four bytes in memory are w, on a
\* little-endian host: the uint32_t 65536 * (256 * w[1] + w[2]) + 256 * w[3]
\* + w[4], and as such it is assigned to the int64_t
be32toh(w) == Uint32((256 * w[1] + w[2]) * 512, 256 * w[3] + w[4])

\* the four bytes in memory of the low half of an int64_t that holds the
\* uint32_t be32toh(w)
LowHalf(w) == <<w[4], w[3], w[2], w[1]>>

\* data->timevalues after calloc and the fread of a version 1 file, in
\* cells of four bytes: the words fill the first half of the array
Cells(words) ==
    [k \in 1..(2 * Len(words)) |->
        IF k <= Len(words) THEN words[k] ELSE <<0, 0, 0, 0>>]

\* data->timevalues[i] = be32toh(*--timevalue32) from i down to 0: the word
\* is read from cell i and the int64_t is written over the cells 2i and
\* 2i + 1, its high half zero
RECURSIVE Widen(_, _)
Widen(cells, i) ==
    IF i < 0 THEN cells
    ELSE Widen([cells EXCEPT ![2 * i + 1] = LowHalf(cells[i + 1]),
                             ![2 * i + 2] = <<0, 0, 0, 0>>], i - 1)

\* the timevalues of a version 1 file after 'process': element i is the
\* int64_t in the cells 2i and 2i + 1
TimeValues32(words) ==
    [i \in 1..Len(words) |->
        be32toh(LowHalf(Widen(Cells(words), Len(words) - 1)[2 * i - 1]))]

\* an error exit of tz_read
ReadFail(err, fio) ==
    [err |-> err, header |-> NoHeader, read64 |-> FALSE, fio |-> fio]

\* TypeIndexBad with > in the place of >=
TypeIndexAbove(timetypes, h) ==
    \E i \in 1..h.timecnt : timetypes[i] > h.typecnt

\* the check of the type indices: data->timetypes[i] >= header->typecnt for
\* some i below timecnt
TypeIndexBad(timetypes, h) ==
    \E i \in 1..h.timecnt : timetypes[i] >= h.typecnt

\* tz_read from 'allocate' on, with the header h read last, the arrays at
\* offset at, and the stdio calls made on f so far in fio; read stands for
\* the calls made on f from there to the check of the type indices
ReadArrays(file, h, read64, at, fio, read) ==
    IF file.fault = "alloc"
    THEN ReadFail("cannot allocate TZ data", fio \o <<"calloc", "fclose">>)
    ELSE IF \/ file.fault = "data"
            \/ at + DataSize(h, read64) > file.size
            \/ Len(IF read64 THEN file.timevalues ELSE file.words) < h.timecnt
            \/ Len(file.timetypes) < h.timecnt
            \/ Len(file.types) < h.typecnt
            \/ Len(file.chars) < h.charcnt
    THEN ReadFail("cannot read TZ data",
                  fio \o <<"calloc", "fread", "fclose">>)
    ELSE IF TypeIndexBad(file.timetypes, h)
    THEN ReadFail("malformed TZ file", fio \o read)
    ELSE [err |-> "", header |-> h, read64 |-> read64,
          fio |-> fio \o <<"calloc", "fread", "fclose">>]

\* tz_read after the second tz_readheader, at offset pos
ReadSecond(file, pos, second, read) ==
    IF second.err # ""
    THEN ReadFail(second.err, <<"fread", "fseek">> \o second.fio)
    ELSE ReadArrays(file, second.header, TRUE, pos + TZ_HEADER_SIZE,
                    <<"fread", "fseek", "fread">>, read)

\* tz_read at fseek to offset pos: the seek fails before the start of the
\* file
ReadSeek(file, pos, read) ==
    IF file.fault = "seek" \/ pos < 0
    THEN ReadFail("cannot read TZ file", <<"fread", "fseek", "fclose">>)
    ELSE ReadSecond(file, pos, tz_readheader(file, pos), read)

\* tz_read after fopen and the first tz_readheader: read64 is
\* header->version >= '2'
ReadSteps(file, first, read) ==
    IF first.header.version >= VERSION_2
    THEN ReadSeek(file, TZ_HEADER_SIZE + SeekOffset(first.header), read)
    ELSE ReadArrays(file, first.header, FALSE, TZ_HEADER_SIZE, <<"fread">>,
                    read)

\* ReadFrom if the type indices were checked before fclose(f)
ReadFromOpen(file, first) == ReadSteps(file, first, <<"calloc", "fread">>)

\* tz_read after fopen and the first tz_readheader: f is closed before the
\* type indices are checked
ReadFrom(file, first) ==
    ReadSteps(file, first, <<"calloc", "fread", "fclose">>)

\* tz_read after the first tz_readheader
ReadFirst(file, first) ==
    IF first.err # "" THEN ReadFail(first.err, first.fio)
    ELSE ReadFrom(file, first)

\* the run of tz_read on the file: the error it raises ("" when it
\* completes), the header it keeps, whether it has read 64-bit values, and
\* the stdio calls it has made on f
ReadRun(file) ==
    IF file.fault = "open" THEN ReadFail("cannot open TZ file", <<>>)
    ELSE ReadFirst(file, tz_readheader(file, 0))

\* the error tz_read raises, "" when it completes
ReadError(file) == ReadRun(file).err

\* 'process': the timevalues are converted, isdst = !!isdst
ReadData(file, r) ==
    IF r.err # ""
    THEN [err |-> r.err, data |-> Zone(<<>>, <<>>, <<>>, <<>>),
          fio |-> r.fio]
    ELSE [err |-> "",
          data |-> Zone(IF r.read64
                        THEN SubSeq(file.timevalues, 1, r.header.timecnt)
                        ELSE TimeValues32(SubSeq(file.words, 1,
                                                 r.header.timecnt)),
                        SubSeq(file.timetypes, 1, r.header.timecnt),
                        [i \in 1..r.header.typecnt |->
                            Type(file.types[i].gmtoff,
                                 IF file.types[i].isdst # 0 THEN 1 ELSE 0,
                                 file.types[i].abbrind)],
                        SubSeq(file.chars, 1, r.header.charcnt)),
          fio |-> r.fio]

\* tz_read: the userdata is filled from the file
tz_read(file) == ReadData(file, ReadRun(file))

\* names of 107 and of 108 bytes
Name107 ==
    "AAAAAAAAAAAAAAAAAAAAAAAAAAAAAAAAAAAAAAAAAAAAAAAAAAAAAAAAAAAAAAAAAAAAAAAAAAAAAAAAAAAAAAAAAAAAAAAAAAAAAAAAAAA"
Name108 ==
    "AAAAAAAAAAAAAAAAAAAAAAAAAAAAAAAAAAAAAAAAAAAAAAAAAAAAAAAAAAAAAAAAAAAAAAAAAAAAAAAAAAAAAAAAAAAAAAAAAAAAAAAAAAAA"
Name108Blank ==
    "AAAAAAAAAAAAAAAAAAAAAAAAAAAAAAAAAAAAAAAAAAAAAAAAAAAAAAAAAAAAAAAAAAAAAAAAAAAAAAAAAAAAAAAAAAAAAAAAAAAAAAAAAAA "

\* the bytes of a zone name
Bytes(timezone) ==
    CASE timezone = "localtime" -> <<108, 111, 99, 97, 108, 116, 105, 109, 101>>
      [] timezone = "UTC" -> <<85, 84, 67>>
      [] timezone = "Z" -> <<90>>
      [] timezone = "Europe/Zurich" ->
            <<69, 117, 114, 111, 112, 101, 47, 90, 117, 114, 105, 99, 104>>
      [] timezone = "America/New_York" ->
            <<65, 109, 101, 114, 105, 99, 97, 47, 78, 101, 119, 95, 89, 111,
              114, 107>>
      [] timezone = "../TZ" -> <<46, 46, 47, 84, 90>>
      [] timezone = "posix.Z" -> <<112, 111, 115, 105, 120, 46, 90>>
      [] timezone = "New York" -> <<78, 101, 119, 32, 89, 111, 114, 107>>
      [] timezone = "" -> <<>>
      [] timezone = Name107 -> [i \in 1..107 |-> 65]
      [] timezone = Name108 -> [i \in 1..108 |-> 65]
      [] timezone = Name108Blank ->
            [i \in 1..108 |-> IF i = 108 THEN 32 ELSE 65]

\* isalnum and ispunct in the "C" locale
isalnum(c) == c \in 48..57 \/ c \in 65..90 \/ c \in 97..122
ispunct(c) == c \in 33..47 \/ c \in 58..64 \/ c \in 91..96 \/ c \in 123..126

\* sizeof(filename), and the bytes of "/etc/localtime" and of
\* "/usr/share/zoneinfo/"
FILENAME_SIZE == 128
LUATZ_LOCALFILE ==
    <<47, 101, 116, 99, 47, 108, 111, 99, 97, 108, 116, 105, 109, 101>>
LUATZ_ZONEINFO ==
    <<47, 117, 115, 114, 47, 115, 104, 97, 114, 101, 47, 122, 111, 110, 101,
      105, 110, 102, 111, 47>>

\* the name checks of tz_data without the test for '.'
NameErrorDots(timezone) ==
    IF timezone = LUATZ_LOCALTIME THEN ""
    ELSE IF Len(Bytes(timezone)) > FILENAME_SIZE - (Len(LUATZ_ZONEINFO) + 1)
    THEN "timezone too long"
    ELSE IF \E i \in 1..Len(Bytes(timezone)) :
               /\ ~isalnum(Bytes(timezone)[i])
               /\ ~ispunct(Bytes(timezone)[i])
    THEN "malformed timezone"
    ELSE ""

\* the error of the name checks of tz_data, "" for a name that passes
NameError(timezone) ==
    IF timezone = LUATZ_LOCALTIME THEN ""
    ELSE IF Len(Bytes(timezone)) > FILENAME_SIZE - (Len(LUATZ_ZONEINFO) + 1)
    THEN "timezone too long"
    ELSE IF \E i \in 1..Len(Bytes(timezone)) :
               /\ ~isalnum(Bytes(timezone)[i])
               /\ ~ispunct(Bytes(timezone)[i]) \/ Bytes(timezone)[i] = 46
    THEN "malformed timezone"
    ELSE ""

\* filename as tz_data makes it for a name that has passed the checks
Filename(timezone) ==
    IF timezone = LUATZ_LOCALTIME THEN LUATZ_LOCALFILE
    ELSE LUATZ_ZONEINFO \o Bytes(timezone)

\* the resolve that did not take place: the calls that need no zone
NoData(tzcache, tzloads) ==
    [err |-> "", data |-> Zone(<<>>, <<>>, <<>>, <<>>), obj |-> Nil,
     cache |-> tzcache, loads |-> tzloads, req |-> Nil, io |-> <<>>,
     fio |-> <<>>]

\* a resolve that fails with err after the file accesses io
DataError(tzcache, tzloads, timezone, err, io) ==
    [err |-> err, data |-> Zone(<<>>, <<>>, <<>>, <<>>), obj |-> Nil,
     cache |-> tzcache, loads |-> tzloads, req |-> Some(timezone),
     io |-> io, fio |-> <<>>]

\* DataRead if it stored the userdata before tz_read has returned
DataReadEager(tzcache, tzloads, timezone, r) ==
    [err |-> r.err, data |-> r.data,
     obj |-> Some(<<timezone, tzloads[timezone] + 1>>),
     cache |-> [n \in DOMAIN tzcache \cup {timezone} |->
                   IF n = timezone
                   THEN [obj |-> Some(<<timezone, tzloads[timezone] + 1>>),
                         data |-> r.data]
                   ELSE tzcache[n]],
     loads |-> IF r.err = "" THEN [tzloads EXCEPT ![timezone] = @ + 1]
               ELSE tzloads,
     req |-> Some(timezone), io |-> <<"stat", "fopen">>,
          fio |-> r.fio]

\* DataRead if it set the TZ table to the one entry
DataReadAlone(tzcache, tzloads, timezone, r) ==
    IF r.err # ""
    THEN [DataError(tzcache, tzloads, timezone, r.err,
                    <<"stat", "fopen">>) EXCEPT !.fio = r.fio]
    ELSE [err |-> "", data |-> r.data,
          obj |-> Some(<<timezone, tzloads[timezone] + 1>>),
          cache |-> [n \in {timezone} |->
                        [obj |-> Some(<<timezone, tzloads[timezone] + 1>>),
                         data |-> r.data]],
          loads |-> [tzloads EXCEPT ![timezone] = @ + 1],
          req |-> Some(timezone), io |-> <<"stat", "fopen">>,
          fio |-> r.fio]

\* the read and cache parts of tz_data for the result r of tz_read: the
\* userdata (the name with the number of the load that made it tells it from
\* every other) is stored under the name as it was requested
DataRead(tzcache, tzloads, timezone, r) ==
    IF r.err # ""
    THEN [DataError(tzcache, tzloads, timezone, r.err,
                    <<"stat", "fopen">>) EXCEPT !.fio = r.fio]
    ELSE [err |-> "", data |-> r.data,
          obj |-> Some(<<timezone, tzloads[timezone] + 1>>),
          cache |-> [n \in DOMAIN tzcache \cup {timezone} |->
                        IF n = timezone
                        THEN [obj |-> Some(<<timezone, tzloads[timezone] + 1>>),
                              data |-> r.data]
                        ELSE tzcache[n]],
          loads |-> [tzloads EXCEPT ![timezone] = @ + 1],
          req |-> Some(timezone), io |-> <<"stat", "fopen">>,
          fio |-> r.fio]

\* tz_data after the TZ table had no object for the name: the name checks,
\* the file check, the read.  tzfiles maps a name to the file at the path
\* made for it.
DataMiss(tzcache, tzfiles, tzloads, timezone) ==
    IF NameError(timezone) # ""
    THEN DataError(tzcache, tzloads, timezone, NameError(timezone), <<>>)
    ELSE IF ~tzfiles[timezone].exists \/ tzfiles[timezone].fault = "notreg"
    THEN DataError(tzcache, tzloads, timezone, "unknown timezone",
                   <<"stat">>)
    ELSE DataRead(tzcache, tzloads, timezone, tz_read(tzfiles[timezone]))

\* tz_data without the TZ table: every call reads the file
tz_dataNoCache(tzcache, tzfiles, tzloads, timezone) ==
    DataMiss(tzcache, tzfiles, tzloads, timezone)

\* tz_data: the cached object if there is one, else the file is read and the
\* object is stored
tz_data(tzcache, tzfiles, tzloads, timezone) ==
    IF timezone \in DOMAIN tzcache
    THEN [err |-> "", data |-> tzcache[timezone].data,
          obj |-> tzcache[timezone].obj, cache |-> tzcache,
          loads |-> tzloads, req |-> Some(timezone), io |-> <<>>,
          fio |-> <<>>]
    ELSE DataMiss(tzcache, tzfiles, tzloads, timezone)

\* ------------------------------------------------------------------------
\* tz.info, tz.date, tz.time
\* ------------------------------------------------------------------------
\* a broken-down time table; every field may be nil
Table(sec, min, hour, day, month, year, wday, yday, isdst, off, zone) ==
    [sec |-> sec, min |-> min, hour |-> hour, day |-> day, month |-> month,
     year |-> year, wday |-> wday, yday |-> yday, isdst |-> isdst,
     off |-> off, zone |-> zone]
NoTable == Table(Nil, Nil, Nil, Nil, Nil, Nil, Nil, Nil, Nil, Nil, Nil)
NoFind == [found |-> -1, upper |-> -1, oob |-> FALSE, type |-> Type(0, 0, 0)]

\* what one call leaves behind: its arguments, the values it computed on the
\* way, and its result (err # "" is a raised error, res = Nil is nil)
Call(op, err, t, tz, tab, norm, c, find, zone, ub, res, d) ==
    [op |-> op, err |-> err, t |-> t, tz |-> tz, tab |-> tab, norm |-> norm,
     c |-> c, find |-> find, zone |-> zone, ub |-> ub, res |-> res,
     req |-> d.req, io |-> d.io, fio |-> d.fio, obj |-> d.obj,
     cache |-> d.cache, loads |-> d.loads]

\* getfield(L, 1, key, d)
getfield(v, d) == IF v = Nil THEN d ELSE v[1]

\* tz.info(t, timezone)
tz_info(tzcache, tzfiles, tzloads, t, tz) ==
    LET timezone == getfield(tz, LUATZ_LOCALTIME)
        d == tz_data(tzcache, tzfiles, tzloads, timezone)
        f == tz_find(d.data, t, -1, 0)
    IN  IF d.err # ""
        THEN Call("info", d.err, Some(t), tz, NoTable, Nil, Nil, NoFind, Nil,
                  FALSE, Nil, d)
        ELSE Call("info", "", Some(t), tz, NoTable, Nil, Nil, f, Some(timezone),
                  FALSE, Some(f.type), d)

\* t += type->gmtoff on int64_t: when the sum does not fit, the addition has
\* overflowed, and t is the sum modulo 2^64 (g = 0) or g days
DateLocal(t, gmtoff, g) ==
    IF Fits64(TAddInt(t, gmtoff)) THEN TAddInt(t, gmtoff)
    ELSE IF g = 0 THEN Wrap64(TAddInt(t, gmtoff))
    ELSE TimeOfDays(g)

\* the "make date" part of tz.date: c is the local time t + gmtoff and m its
\* date; g stands for the value of the date fields when the arithmetic has
\* overflowed
DateResult(d, t, tz, g, timezone, f, c, m) ==
    IF TLe(LUATZ_J0_TIME, c)
    THEN Call("date", "", Some(t), tz,
              Table(Some(m.sec), Some(m.min), Some(m.hour),
                    Some(IF m.ub THEN g ELSE m.day),
                    Some(IF m.ub THEN g ELSE m.month),
                    Some(IF m.ub THEN g ELSE m.year),
                    Some(IF m.wub THEN g ELSE m.wday),
                    Some(IF m.ub THEN g ELSE m.yday),
                    Some(f.type.isdst = 1), Some(f.type.gmtoff),
                    Some(f.type.abbrind)),
              Nil, Some(c), f, Some(timezone),
              m.ub \/ m.wub \/ ~Fits64(TAddInt(t, f.type.gmtoff)), Some(c),
              d)
    ELSE Call("date", "", Some(t), tz, NoTable, Nil, Some(c), f,
              Some(timezone), ~Fits64(TAddInt(t, f.type.gmtoff)), Nil,
              d)

\* tz.date("*t", t, timezone) and, with utc, tz.date("!*t", t, timezone)
tz_date(tzcache, tzfiles, tzloads, utc, t, tz, g) ==
    LET timezone == IF utc THEN LUATZ_UTC ELSE getfield(tz, LUATZ_LOCALTIME)
        d == tz_data(tzcache, tzfiles, tzloads, timezone)
        f == tz_find(d.data, t, -1, 0)
    IN  IF d.err # ""
        THEN Call("date", d.err, Some(t), tz, NoTable, Nil, Nil, NoFind, Nil,
                  FALSE, Nil, d)
        ELSE DateResult(d, t, tz, g, timezone, f,
                        DateLocal(t, f.type.gmtoff, g),
                        MakeDate(DateLocal(t, f.type.gmtoff, g)))

\* tz.time(): the branch without a table returns the clock, or nil when
\* time() fails with -1
tz_time_now(tzcache, tzloads, now) ==
    Call("now", "", Some(now), Nil, NoTable, Nil, Nil, NoFind, Nil, FALSE,
         IF now = TimeOfInt(-1) THEN Nil ELSE Some(now),
         NoData(tzcache, tzloads))

\* the fields tz.time reads from the table, with their defaults
TimeFields(tab) ==
    [sec |-> getfield(tab.sec, 0), min |-> getfield(tab.min, 0),
     hour |-> getfield(tab.hour, 12), day |-> getfield(tab.day, -1),
     month |-> getfield(tab.month, -1), year |-> getfield(tab.year, -1),
     isdst |-> IF tab.isdst = Nil THEN -1 ELSE IF tab.isdst[1] THEN 1 ELSE 0,
     hasoff |-> tab.off # Nil]

\* the month and the year after the two ifs; g stands for both when the
\* arithmetic has overflowed
TimeNorm(x, g) ==
    LET n == NormMonth(x.year, x.month)
    IN  IF n.ub THEN [ub |-> TRUE, year |-> g, month |-> g] ELSE n

\* the civil time composed from the fields, before the offset is taken off;
\* g days when the arithmetic has overflowed
TimeCivil(x, n, g) ==
    LET m == MakeTime(n.year, n.month, x.day, x.hour, x.min, x.sec)
    IN  IF m.ub THEN [ub |-> TRUE, t |-> TimeOfDays(g)]
        ELSE [ub |-> n.ub, t |-> m.t]

\* UseOff as it was before release 1.0.0: an off field always wins
UseOffAlways(hasoff, hastimezone) == hasoff

\* the condition of the if under 'adjust': the off field is used
UseOff(hasoff, hastimezone) == hasoff /\ ~hastimezone

\* the end of tz.time: nil below LUATZ_J0_TIME, else t
TimeResult(tab, tz, n, c, t, find, zone, d) ==
    Call("time", "", Nil, tz, tab, Some(<<n.year, n.month>>), Some(c.t),
         find, zone, c.ub, IF TLt(t, LUATZ_J0_TIME) THEN Nil ELSE Some(t),
         d)

\* the 'adjust' part of tz.time for the fields x, the normalised year and
\* month n and the composed time c
TimeAdjust(tzcache, tzfiles, tzloads, tab, tz, x, n, c) ==
    LET timezone == getfield(tz, LUATZ_LOCALTIME)
        d == tz_data(tzcache, tzfiles, tzloads, timezone)
        f == tz_find(d.data, c.t, x.isdst, 1)
    IN  IF UseOff(x.hasoff, tz # Nil)
        THEN TimeResult(tab, tz, n, c, TSubInt(c.t, getfield(tab.off, -1)),
                        NoFind, Nil, NoData(tzcache, tzloads))
        ELSE IF d.err # ""
        THEN Call("time", d.err, Nil, tz, tab, Some(<<n.year, n.month>>),
                  Some(c.t), NoFind, Nil, c.ub, Nil, d)
        ELSE TimeResult(tab, tz, n, c, TSubInt(c.t, f.type.gmtoff), f,
                        Some(timezone), d)

\* the composition of tz.time for the fields x and the normalised n: nil
\* when the year is below LUATZ_J0_YEAR
TimeCompose(tzcache, tzfiles, tzloads, tab, tz, g, x, n) ==
    IF ~(n.year >= LUATZ_J0_YEAR)
    THEN Call("time", "", Nil, tz, tab, Some(<<n.year, n.month>>), Nil,
              NoFind, Nil, n.ub, Nil, NoData(tzcache, tzloads))
    ELSE TimeAdjust(tzcache, tzfiles, tzloads, tab, tz, x, n,
                    TimeCivil(x, n, g))

\* tz.time(tab, timezone); day, month and year have no default
tz_time(tzcache, tzfiles, tzloads, tab, tz, g) ==
    IF tab.day = Nil \/ tab.month = Nil \/ tab.year = Nil
    THEN Call("time", "field missing", Nil, tz, tab, Nil, Nil, NoFind, Nil,
              FALSE, Nil, NoData(tzcache, tzloads))
    ELSE TimeCompose(tzcache, tzfiles, tzloads, tab, tz, g, TimeFields(tab),
                     TimeNorm(TimeFields(tab), g))

\* ------------------------------------------------------------------------
\* The state: the TZ files of the host, the TZ cache of the Lua state, the
\* number of times tz_read has completed for each name (loads), the zone
\* each coroutine of the Lua state is about to resolve (pending), and the
\* call in progress (last) with the call it follows up (prev)
\* ------------------------------------------------------------------------
VARIABLES files, cache, loads, pending, last, prev

vars == <<files, cache, loads, pending, last, prev>>

Coroutines == {1, 2}
NoPending == [co \in Coroutines |-> Nil]

NoCache == <<>>
NoCall == [op |-> "none", err |-> "", t |-> Nil, tz |-> Nil, tab |-> NoTable,
           norm |-> Nil, c |-> Nil, find |-> NoFind, zone |-> Nil,
           ub |-> FALSE, res |-> Nil, req |-> Nil, io |-> <<>>, fio |-> <<>>,
           obj |-> Nil]

\* the caller's record of a call
Done(r) == [op |-> r.op, err |-> r.err, t |-> r.t, tz |-> r.tz,
            tab |-> r.tab, norm |-> r.norm, c |-> r.c, find |-> r.find,
            zone |-> r.zone, ub |-> r.ub, res |-> r.res, req |-> r.req,
            io |-> r.io, fio |-> r.fio, obj |-> r.obj]

\* the values an overflowed int may hold, as far as the model tells them
\* apart; a call that does not overflow (ub false with 0) uses none of them
UBInts == {-3000000, 0, 20000}

\* a fresh call of tz.info
Info(Ts, Zs) ==
    /\ last.op = "none"
    /\ \E t \in Ts, tz \in Zs :
         LET r == tz_info(cache, files, loads, t, tz)
         IN  /\ last' = Done(r)
             /\ cache' = r.cache
             /\ loads' = r.loads
    /\ UNCHANGED <<files, pending, prev>>

\* a fresh call of tz.date
Date(Ts, Zs, Us) ==
    /\ last.op = "none"
    /\ \E t \in Ts, tz \in Zs, utc \in Us :
         \E r0 \in {tz_date(cache, files, loads, utc, t, tz, 0)} :
            \E r \in IF r0.ub
                     THEN {tz_date(cache, files, loads, utc, t, tz, g) :
                              g \in UBInts}
                     ELSE {r0} :
               /\ last' = Done(r)
               /\ cache' = r.cache
               /\ loads' = r.loads
    /\ UNCHANGED <<files, pending, prev>>

\* tz.date called again in the same zone with t + k
DateAgain(Ks) ==
    /\ last.op = "date" /\ last.err = "" /\ prev.op = "none"
    /\ \E k \in Ks :
         /\ Fits64(TAddInt(last.t[1], k))
         /\ \E r0 \in {tz_date(cache, files, loads, FALSE,
                                TAddInt(last.t[1], k), last.zone, 0)} :
              \E r \in IF r0.ub
                       THEN {tz_date(cache, files, loads, FALSE,
                                     TAddInt(last.t[1], k), last.zone, g) :
                                g \in UBInts}
                       ELSE {r0} :
                 /\ last' = Done(r)
                 /\ cache' = r.cache
                 /\ loads' = r.loads
    /\ prev' = last
    /\ UNCHANGED <<files, pending>>

\* a fresh call of tz.time without a table
TimeNow(Clock) ==
    /\ last.op = "none"
    /\ \E now \in Clock : last' = Done(tz_time_now(cache, loads, now))
    /\ UNCHANGED <<files, cache, loads, pending, prev>>

\* tz.time(tab, tz) as a step
DoTime(tab, tz) ==
    \E r0 \in {tz_time(cache, files, loads, tab, tz, 0)} :
       \E r \in IF r0.ub
                THEN {tz_time(cache, files, loads, tab, tz, g) : g \in UBInts}
                ELSE {r0} :
          /\ last' = Done(r)
          /\ cache' = r.cache
          /\ loads' = r.loads

\* a fresh call of tz.time with a table
TimeCall(Tabs, Zs) ==
    /\ last.op = "none"
    /\ \E tab \in Tabs, tz \in Zs : DoTime(tab, tz)
    /\ UNCHANGED <<files, pending, prev>>

\* tz.time on the table tz.date has just returned, without a zone (bare) or
\* with the zone of that call, the off field kept or removed
TimeOfDate(Bare) ==
    /\ last.op = "date" /\ last.err = "" /\ last.res # Nil
    /\ prev.op = "none"
    /\ \E bare \in Bare, keep \in BOOLEAN :
         DoTime(IF keep THEN last.tab ELSE [last.tab EXCEPT !.off = Nil],
                IF bare THEN Nil ELSE last.tz)
    /\ prev' = last
    /\ UNCHANGED <<files, pending>>

\* tz.date("*t", t, zone) on the time tz.time has just returned, with the
\* zone of that call
DateOfTime ==
    /\ last.op = "time" /\ last.err = "" /\ last.res # Nil
    /\ last.tz # Nil
    /\ \E r0 \in {tz_date(cache, files, loads, FALSE, last.res[1], last.tz,
                           0)} :
         \E r \in IF r0.ub
                  THEN {tz_date(cache, files, loads, FALSE, last.res[1],
                                last.tz, g) : g \in UBInts}
                  ELSE {r0} :
            /\ last' = Done(r)
            /\ cache' = r.cache
            /\ loads' = r.loads
    /\ prev' = last
    /\ UNCHANGED <<files, pending>>

\* tz.time called again with only the isdst field of the table changed
TimeIsdst ==
    /\ last.op = "time" /\ last.err = "" /\ prev.op = "none"
    /\ \E v \in {Nil, Some(TRUE), Some(FALSE)} \ {last.tab.isdst} :
         DoTime([last.tab EXCEPT !.isdst = v], last.tz)
    /\ prev' = last
    /\ UNCHANGED <<files, pending>>

\* tz.time called again with k added to one of day, hour, min and sec
TimeShift(Ks) ==
    /\ last.op = "time" /\ last.err = "" /\ prev.op = "none"
    /\ \E f \in {"day", "hour", "min", "sec"}, k \in Ks :
         /\ last.tab[f] # Nil
         /\ ~AddOvf(last.tab[f][1], k)
         /\ DoTime([last.tab EXCEPT ![f] = Some(last.tab[f][1] + k)], last.tz)
    /\ prev' = last
    /\ UNCHANGED <<files, pending>>

\* the month in 1..12 and the year that name the same month as (year, month)
CanonMonth(year, month) ==
    [year |-> year + (month - 1) \div 12, month |-> ((month - 1) % 12) + 1]

\* tz.time called again with the month and the year the caller has
\* normalised
TimeRenorm ==
    /\ last.op = "time" /\ last.err = "" /\ prev.op = "none"
    /\ last.tab.month[1] \notin 1..12
    /\ ~AddOvf(last.tab.year[1], (last.tab.month[1] - 1) \div 12)
    /\ LET n == CanonMonth(last.tab.year[1], last.tab.month[1])
       IN  DoTime([last.tab EXCEPT !.year = Some(n.year),
                                   !.month = Some(n.month)], last.tz)
    /\ prev' = last
    /\ UNCHANGED <<files, pending>>

\* a coroutine is about to call tz.info(0, tz)
Request(Zs) ==
    /\ \E co \in Coroutines, tz \in Zs :
         /\ pending[co] = Nil
         /\ pending' = [pending EXCEPT ![co] = Some(tz)]
    /\ UNCHANGED <<files, cache, loads, last, prev>>

\* a coroutine runs its call of tz.info: tz_data has no point where the
\* coroutine can yield, so the call is one step whichever coroutine is
\* resumed
Resume ==
    /\ last.op = "none"
    /\ \E co \in Coroutines :
         /\ pending[co] # Nil
         /\ LET r == tz_info(cache, files, loads, TimeOfInt(0),
                             Some(pending[co][1]))
            IN  /\ last' = Done(r)
                /\ cache' = r.cache
                /\ loads' = r.loads
         /\ pending' = [pending EXCEPT ![co] = Nil]
    /\ UNCHANGED <<files, prev>>

\* the caller has caught the error of a call and resolves the zone again
Retry ==
    /\ last.err # "" /\ last.req # Nil /\ prev.op = "none"
    /\ LET r == tz_info(cache, files, loads, TimeOfInt(0), last.req)
       IN  /\ last' = Done(r)
           /\ cache' = r.cache
           /\ loads' = r.loads
    /\ prev' = last
    /\ UNCHANGED <<files, pending>>

\* the host replaces the file of a zone, between two calls or after a call
\* has failed
Install(Zs, Fs) ==
    /\ last.op = "none" \/ last.err # ""
    /\ \E n \in Zs :
         \E f \in Fs \ {files[n]} : files' = [files EXCEPT ![n] = f]
    /\ UNCHANGED <<cache, loads, pending, last, prev>>

\* the caller takes the result
Return ==
    /\ last.op # "none"
    /\ last' = NoCall
    /\ prev' = NoCall
    /\ UNCHANGED <<files, cache, loads, pending>>

\* ------------------------------------------------------------------------
\* Spec: one zone file "Z" with every content over a small grid of
\* transition instants (ascending or not: tz_read does not look at the
\* order), a few types, and instants and civil times around the transitions
\* ------------------------------------------------------------------------
MaxTimecnt == 2
MaxTick == 2
ZoneNames == {LUATZ_LOCALTIME, LUATZ_UTC, "Europe/Zurich", "Z"}

GridTypes == {Type(0, 0, 0), Type(2, 1, 0)}
GridTypeTables == {<<a>> : a \in GridTypes}
                  \cup {p \in GridTypes \X GridTypes : p[1] # p[2]}
GridFiles ==
    UNION {{File([i \in 1..n |-> TimeOfInt(tv[i])], tt, ty) :
                tv \in [1..n -> 0..MaxTick],
                tt \in [1..n -> 0..(Len(ty) - 1)]} :
           n \in 0..MaxTimecnt, ty \in GridTypeTables}

GridTimes == {TimeOfInt(n) : n \in -1..(MaxTick + 1)}
GridTable(c) ==
    Table(Some(c), Nil, Some(0), Some(1), Some(1), Some(1970), Nil, Nil,
          Nil, Nil, Nil)
GridTables == {GridTable(c) : c \in -1..(MaxTick + 2)}

Init ==
    /\ \E f \in GridFiles :
         files = [n \in ZoneNames |-> IF n = "Z" THEN f ELSE NoFile]
    /\ cache = NoCache
    /\ loads = [n \in ZoneNames |-> 0]
    /\ pending = NoPending
    /\ last = NoCall
    /\ prev = NoCall

Next ==
    \/ Info(GridTimes, {Some("Z")})
    \/ Date(GridTimes, {Some("Z")}, {FALSE})
    \/ TimeCall(GridTables, {Some("Z")})
    \/ TimeOfDate({FALSE})
    \/ TimeIsdst
    \/ DateOfTime
    \/ Return

Spec == Init /\ [][Next]_vars

\* ------------------------------------------------------------------------
\* SpecCal: the zones of the tests (UTC, Europe/Zurich, and America/New_York
\* as the local time zone, which may also be missing), with instants and
\* tables of the tests, at the domain floor and where an int overflows
\* ------------------------------------------------------------------------
UTCFile == File(<<>>, <<>>, <<Type(0, 0, 0)>>)

\* LMT, BMT, CEST, CET; the transitions of 1853, 1894, 2013 and 2014
ZurichFile ==
    File(<<Time(-42538, 84352), Time(-27608, 84614), Time(15795, 3600),
           Time(16005, 3600), Time(16159, 3600), Time(16369, 3600)>>,
         <<1, 3, 2, 3, 2, 3>>,
         <<Type(2048, 0, 0), Type(1786, 0, 4), Type(7200, 1, 8),
           Type(3600, 0, 13)>>)

\* EST, EDT; the transitions of 2013
NewYorkFile ==
    File(<<Time(15774, 25200), Time(16012, 21600)>>, <<1, 0>>,
         <<Type(-18000, 0, 0), Type(-14400, 1, 4)>>)

CalFiles(local) ==
    [n \in ZoneNames |->
        IF n = LUATZ_UTC THEN UTCFile
        ELSE IF n = "Europe/Zurich" THEN ZurichFile
        ELSE IF n = LUATZ_LOCALTIME THEN local
        ELSE NoFile]

CalZones == {Nil, Some(LUATZ_UTC), Some("Europe/Zurich")}

\* 0, 1, -1, the instants of the tests, the domain floor, the first day
\* whose Julian day number overflows 4 * l in tz.date, the last second whose
\* Julian day number fits an int, and the ends of int64_t
CalTimes ==
    {TimeOfInt(0), TimeOfInt(1), TimeOfInt(-1), TimeOfInt(1392456870),
     TimeOfInt(1396141199), TimeOfInt(1396141200), TimeOfInt(1382832000),
     TimeOfInt(1382835599), TimeOfInt(1382835600),
     LUATZ_J0_TIME, TSubInt(LUATZ_J0_TIME, 1), TAddInt(LUATZ_J0_TIME, 86399),
     Time(534361754, 0), Time(534361755, 0),
     Time(2145043059, 86399), Time(2145043060, 0),
     INT64_MAX, TSubInt(INT64_MAX, 3600), TSubInt(INT64_MAX, 7200),
     INT64_MIN, TAddInt(INT64_MIN, 18000)}

CalClock == {TimeOfInt(-1), TimeOfInt(1392456870)}

\* a table with the fields tz.time reads
Fields(year, month, day, hour, min, sec, isdst, off) ==
    Table(sec, min, hour, day, month, year, Nil, Nil, isdst, off, Nil)
Civil(year, month, day, hour, min, sec) ==
    Fields(Some(year), Some(month), Some(day), Some(hour), Some(min),
           Some(sec), Nil, Nil)
Day(year, month, day) ==
    Fields(Some(year), Some(month), Some(day), Nil, Nil, Nil, Nil, Nil)
Utc(year, month, day, hour, min, sec) ==
    Fields(Some(year), Some(month), Some(day), Some(hour), Some(min),
           Some(sec), Nil, Some(0))

CalTables ==
    {Civil(2014, 3, 30, 1, 59, 59), Civil(2014, 3, 30, 2, 0, 0),
     Civil(2014, 3, 30, 3, 0, 0), Civil(2013, 10, 27, 1, 59, 59),
     Civil(2013, 10, 27, 2, 0, 0), Civil(2013, 10, 27, 3, 0, 0),
     Day(2014, 1, 32), Day(2014, 2, -61), Day(2012, 2, 30),
     Civil(2014, 1, 31, 25, 61, 61), Day(2010, 50, 10), Day(2014, -46, 10),
     Day(2014, 0, 1), Day(2014, -12, 1), Day(2014, 13, 1),
     Utc(1970, 1, 1, 0, 0, 0), Utc(1969, 12, 31, 23, 59, 59),
     Utc(-4713, 11, 24, 0, 0, 0), Utc(-4713, 11, 24, 0, 0, -1),
     Utc(-4714, 12, 31, 0, 0, 0), Utc(-4713, 0, 31, 0, 0, 0),
     Fields(Some(2014), Some(1), Nil, Nil, Nil, Nil, Nil, Nil),
     Civil(2014, 1, 1, 596523, 0, 0), Civil(2014, 1, 1, 0, 35791394, 0),
     Day(2014, 1, INT_MAX), Day(178958985, INT_MIN + 11, 1),
     Utc(INT_MIN, 0, 600000000, 0, 0, 0)}

CalShifts == {-61, 1, 31}

InitCal ==
    /\ \E local \in {NoFile, NewYorkFile} : files = CalFiles(local)
    /\ cache = NoCache
    /\ loads = [n \in ZoneNames |-> 0]
    /\ pending = NoPending
    /\ last = NoCall
    /\ prev = NoCall

NextCal ==
    \/ Info(CalTimes, CalZones)
    \/ Date(CalTimes, CalZones, BOOLEAN)
    \/ DateAgain({SECS_PER_DAY})
    \/ TimeNow(CalClock)
    \/ TimeCall(CalTables, CalZones)
    \/ TimeOfDate(BOOLEAN)
    \/ TimeIsdst
    \/ TimeShift(CalShifts)
    \/ TimeRenorm
    \/ Return

SpecCal == InitCal /\ [][NextCal]_vars

\* ------------------------------------------------------------------------
\* SpecLoad: names that pass and names that fail the checks of tz_data, and
\* a zone "Z" whose file the host replaces: missing, not a regular file,
\* failing at each step of tz_read, or one of two good files
\* ------------------------------------------------------------------------
LoadNames ==
    {LUATZ_LOCALTIME, LUATZ_UTC, "Z", "../TZ", "posix.Z", "New York", "",
     Name107, Name108, Name108Blank}

StdFile == File(<<TimeOfInt(0)>>, <<0>>, <<Type(3600, 0, 0)>>)
DstFile ==
    File(<<TimeOfInt(0)>>, <<1>>, <<Type(3600, 0, 0), Type(7200, 2, 4)>>)
NoTypesFile == File(<<>>, <<>>, <<>>)
BadIndexFile == File(<<TimeOfInt(0)>>, <<1>>, <<Type(3600, 0, 0)>>)
BadMagicFile == [StdFile EXCEPT !.header.magic = "TZiF"]
BadVersionFile == [StdFile EXCEPT !.header.version = 49]
BadCountsFile == [StdFile EXCEPT !.header.timecnt = -1]
LoadFiles ==
    {NoFile, StdFile, DstFile, NoTypesFile, BadIndexFile, BadMagicFile,
     BadVersionFile, BadCountsFile}
    \cup {Faulty(fault, StdFile) : fault \in Faults}

\* "/usr/share/zoneinfo/" itself is a directory; the other paths name a
\* good file each, whether tz_data gets as far as making the path or not
LoadHost(z) ==
    [n \in LoadNames |->
        IF n = "Z" THEN z
        ELSE IF n = "" THEN Faulty("notreg", NoTypesFile)
        ELSE IF n = LUATZ_UTC THEN UTCFile
        ELSE StdFile]

LoadTimes == {TimeOfInt(0)}
LoadTables == {Civil(1970, 1, 1, 0, 0, 0)}
LoadZones == {Nil} \cup {Some(n) : n \in LoadNames}

InitLoad ==
    /\ \E z \in LoadFiles : files = LoadHost(z)
    /\ cache = NoCache
    /\ loads = [n \in LoadNames |-> 0]
    /\ pending = NoPending
    /\ last = NoCall
    /\ prev = NoCall

NextLoad ==
    \/ Info(LoadTimes, LoadZones)
    \/ Date(LoadTimes, {Some("Z")}, BOOLEAN)
    \/ TimeCall(LoadTables, {Some("Z")})
    \/ Request({"Z"})
    \/ Resume
    \/ Retry
    \/ Install({"Z"}, LoadFiles)
    \/ Return

SpecLoad == InitLoad /\ [][NextLoad]_vars

\* ------------------------------------------------------------------------
\* SpecFile: the file of "Z" byte by byte as far as tz_read looks at it:
\* headers with each count below, at and above what the file holds, other
\* magics and versions, version 1 files with transitions on both sides of
\* 2^31, type indices and abbreviation indices in and out of range, files
\* that end early, and the failures of the host
\* ------------------------------------------------------------------------
MaxWords == 2

\* 0xFFFFFFFF, 0x80000000, 0x00000005 and 0x7FFFFFFF, big-endian
Words == {<<255, 255, 255, 255>>, <<128, 0, 0, 0>>, <<0, 0, 0, 5>>,
          <<127, 255, 255, 255>>}

Counts == {"isgmtcnt", "isstdcnt", "leapcnt", "timecnt", "typecnt", "charcnt"}

\* a version 1 file with one transition at 5 and one type, "Z"
Base32 ==
    File32(Header("TZif", VERSION_1, 0, 0, 0, 1, 1, 2), <<<<0, 0, 0, 5>>>>,
           <<0>>, <<Type(2, 1, 0)>>, <<90, 0>>)

\* a version 2 file with the same, its first block empty but for the type
\* and the abbreviation
Base64 ==
    File64(Header("TZif", VERSION_2, 0, 0, 0, 0, 1, 2),
           Header("TZif", VERSION_2, 0, 0, 0, 1, 1, 2), <<TimeOfInt(5)>>,
           <<0>>, <<Type(2, 1, 0)>>, <<90, 0>>)

\* the header h with another magic, another version or another count
Headers(h, size) ==
    {[h EXCEPT ![c] = v] : c \in Counts, v \in {-1, 0, 1, 2, size + 1}}
    \cup {[h EXCEPT !.magic = "TZiF"]}
    \cup {[h EXCEPT !.version = v] :
             v \in {VERSION_1, 49, VERSION_2, VERSION_3, 52}}

HeaderFiles ==
    {[Base32 EXCEPT !.header = h] : h \in Headers(Base32.header, Base32.size)}
    \cup {[Base64 EXCEPT !.header = h] :
             h \in Headers(Base64.header, Base64.size)}
    \cup {[Base64 EXCEPT !.second = Some([at |-> Base64.second[1].at,
                                          header |-> h])] :
             h \in Headers(Base64.second[1].header, Base64.size)}

\* version 1 files with up to MaxWords transitions
WordFiles ==
    UNION {{File32(Header("TZif", VERSION_1, 0, 0, 0, n, 1, 2), w,
                   [i \in 1..n |-> 0], <<Type(2, 1, 0)>>, <<90, 0>>) :
               w \in [1..n -> Words]} : n \in 0..MaxWords}

\* files with no or one transition, no, one or two types, and type indices
\* in and out of range
TypeFiles ==
    {File32(Header("TZif", VERSION_1, 0, 0, 0, Len(tt), Len(ty), 2),
            [i \in 1..Len(tt) |-> <<0, 0, 0, 5>>], tt, ty, <<90, 0>>) :
        tt \in {<<>>, <<0>>, <<1>>, <<2>>, <<255>>},
        ty \in {<<>>, <<Type(2, 1, 0)>>, <<Type(2, 1, 0), Type(0, 0, 0)>>}}

\* files with abbreviation indices in and out of the pool, and pools with
\* and without a NUL
CharFiles ==
    {File32(Header("TZif", VERSION_1, 0, 0, 0, 1, 1, Len(ch)),
            <<<<0, 0, 0, 5>>>>, <<0>>, <<Type(2, 1, a)>>, ch) :
        a \in {0, 1, 2, 255},
        ch \in {<<>>, <<0>>, <<90>>, <<90, 0>>, <<90, 0, 90>>}}

\* files that end in the header, in the arrays, or before the second header
ShortFiles ==
    {[Base32 EXCEPT !.size = 43], [Base32 EXCEPT !.size = Base32.size - 1],
     [Base32 EXCEPT !.chars = <<90>>],
     [Base64 EXCEPT !.size = Base64.second[1].at + 43],
     [Base64 EXCEPT !.size = Base64.size - 1],
     [Base64 EXCEPT !.second = Nil, !.size = 2 * TZ_HEADER_SIZE]}

FaultyFiles ==
    {Faulty(fault, f) : fault \in Faults, f \in {Base32, Base64}}

RawFiles ==
    {NoFile} \cup HeaderFiles \cup WordFiles \cup TypeFiles \cup CharFiles
    \cup ShortFiles \cup FaultyFiles

\* instants before every transition of the files
FileTimes == {TimeOfInt(-1), TimeOfInt(0)}

InitFile ==
    /\ \E f \in RawFiles :
         files = [n \in ZoneNames |-> IF n = "Z" THEN f ELSE NoFile]
    /\ cache = NoCache
    /\ loads = [n \in ZoneNames |-> 0]
    /\ pending = NoPending
    /\ last = NoCall
    /\ prev = NoCall

NextFile ==
    \/ Info(FileTimes, {Some("Z")})
    \/ Date(FileTimes, {Some("Z")}, {FALSE})
    \/ Return

SpecFile == InitFile /\ [][NextFile]_vars

\* ------------------------------------------------------------------------
\* Properties
\* ------------------------------------------------------------------------
\* the zone object a finished call has resolved
Resolved(call) == cache[call.zone[1]].data

\* the transitions of a zone are strictly ascending
StrictlyAscending(data) ==
    \A i \in 0..(data.timecnt - 2) :
       TLt(TimeValue(data, i), TimeValue(data, i + 1))

\* linear scan: the greatest index whose transition instant is <= t
LinearScan(data, t) ==
    CHOOSE i \in 0..(data.timecnt - 1) :
       /\ TLe(TimeValue(data, i), t)
       /\ \A j \in (i + 1)..(data.timecnt - 1) : ~TLe(TimeValue(data, j), t)

\* the type a forward call has returned: the results of tz.info, or the
\* off, isdst and zone fields of the table of tz.date
Returned(call) ==
    IF call.op = "info" THEN call.res[1]
    ELSE Type(call.tab.off[1], IF call.tab.isdst[1] THEN 1 ELSE 0,
              call.tab.zone[1])

\* a forward call that has returned a type
Forward(call) ==
    /\ call.op \in {"info", "date"}
    /\ call.err = ""
    /\ call.res # Nil

\* C1: in a zone with strictly ascending transitions, tz.info and tz.date
\* at an instant t at or after the first transition return the type of the
\* transition a linear scan finds: the one with the greatest index whose
\* instant is <= t.
C1_ForwardIsLinearScan ==
    Forward(last) =>
       LET data == Resolved(last)
           t == last.t[1]
       IN  (/\ StrictlyAscending(data)
            /\ data.timecnt > 0
            /\ TLe(TimeValue(data, 0), t))
           => Returned(last) = TypeAt(data, LinearScan(data, t))

\* C1, witness: a call at the very instant of the second transition of an
\* ascending zone returns the new type, which is not the previous one
C1_Witness ==
    /\ Forward(last)
    /\ Resolved(last).timecnt >= 2
    /\ StrictlyAscending(Resolved(last))
    /\ last.t[1] = TimeValue(Resolved(last), 1)
    /\ Returned(last) = TypeAt(Resolved(last), 1)
    /\ TypeAt(Resolved(last), 1) # TypeAt(Resolved(last), 0)

\* a call of tz.time that has resolved a zone and has not raised an error
Reverse(call) ==
    /\ call.op = "time"
    /\ call.err = ""
    /\ call.zone # Nil

\* the civil time at which transition i takes place, on the clock of its
\* own type
LocalAt(data, i) == TAddInt(TimeValue(data, i), TypeAt(data, i).gmtoff)

\* on their own clocks, the transitions up to k are at or before c and the
\* later ones are after c
EndsAt(data, c, k) ==
    \A i \in 0..(data.timecnt - 1) :
       IF i <= k THEN TLe(LocalAt(data, i), c) ELSE ~TLe(LocalAt(data, i), c)

\* transition k falls back from a DST type to a non-DST type of a smaller
\* offset, and c is in [T + b, T + a)
FallBackAt(data, c, k) ==
    /\ TypeAt(data, k - 1).isdst = 1
    /\ TypeAt(data, k).isdst = 0
    /\ TypeAt(data, k).gmtoff < TypeAt(data, k - 1).gmtoff
    /\ TLe(LocalAt(data, k), c)
    /\ TLt(c, TAddInt(TimeValue(data, k), TypeAt(data, k - 1).gmtoff))

\* what C2 says tz.time returns at transition k: c - a with isdst true,
\* c - b with isdst false or absent
FallBackResult(call, k) ==
    Some(TSubInt(call.c[1],
                 IF call.tab.isdst = Some(TRUE)
                 THEN TypeAt(Resolved(call), k - 1).gmtoff
                 ELSE TypeAt(Resolved(call), k).gmtoff))

\* C2 as stated: in a zone with strictly ascending transitions, for every
\* fall-back transition at T from offset a (DST) to b < a (non-DST) and every
\* civil time c with T + b <= c < T + a, tz.time returns c - b when isdst is
\* absent or false and c - a when isdst is true.
C2_FallBackAsStated ==
    (Reverse(last) /\ StrictlyAscending(Resolved(last))) =>
       \A k \in 1..(Resolved(last).timecnt - 1) :
          FallBackAt(Resolved(last), last.c[1], k)
          => last.res = FallBackResult(last, k)

\* C2 as amended: the same, for every zone, provided that on their own
\* clocks (instant plus own offset) the transitions up to this one are at or
\* before c and all later ones are after c.
C2_FallBack ==
    Reverse(last) =>
       \A k \in 1..(Resolved(last).timecnt - 1) :
          (/\ FallBackAt(Resolved(last), last.c[1], k)
           /\ EndsAt(Resolved(last), last.c[1], k))
          => last.res = FallBackResult(last, k)

\* C2, witness: a call with isdst true inside the repeated interval of a
\* fall-back transition has returned c - a, an instant before T
C2_Witness ==
    /\ Reverse(last)
    /\ last.tab.isdst = Some(TRUE)
    /\ \E k \in 1..(Resolved(last).timecnt - 1) :
          /\ FallBackAt(Resolved(last), last.c[1], k)
          /\ EndsAt(Resolved(last), last.c[1], k)
          /\ last.res = Some(TSubInt(last.c[1],
                                     TypeAt(Resolved(last), k - 1).gmtoff))
          /\ TLt(last.res[1], TimeValue(Resolved(last), k))

\* the offset in force before transition k: that of the type of transition
\* k - 1, or of types[0] before the first transition
OffsetBefore(data, k) ==
    IF k > 0 THEN TypeAt(data, k - 1).gmtoff ELSE data.types[1].gmtoff

\* c lies in a civil interval that occurs twice: transition k lowers the
\* offset from a to b and T + b <= c < T + a
RepeatedAt(data, c, k) ==
    /\ TypeAt(data, k).gmtoff < OffsetBefore(data, k)
    /\ TLe(LocalAt(data, k), c)
    /\ TLt(c, TAddInt(TimeValue(data, k), OffsetBefore(data, k)))
Repeated(data, c) ==
    \E k \in 0..(data.timecnt - 1) : RepeatedAt(data, c, k)

\* tz.time has been called with the table of a tz.date("*t", t, zone) that
\* returned one, and with the same zone
RoundTripZone ==
    /\ Reverse(last)
    /\ prev.op = "date"
    /\ prev.tz # Nil
    /\ last.tz = prev.tz

\* C3: for every loaded zone and every t >= J0_TIME for which
\* tz.date("*t", t, zone) returns a table, tz.time of that table with the
\* same zone, the off field removed or not, returns t, unless the civil time
\* lies in a repeated civil hour.
C3_RoundTripZone ==
    (RoundTripZone /\ TLe(LUATZ_J0_TIME, prev.t[1])
                   /\ ~Repeated(Resolved(last), prev.c[1]))
    => last.res = prev.t

\* tz.time has been called without a timezone argument on the table that
\* tz.date has returned, the off field kept
RoundTripOff ==
    /\ last.op = "time"
    /\ last.err = ""
    /\ prev.op = "date"
    /\ last.tz = Nil
    /\ last.tab = prev.tab

\* C4: for every zone and every instant t for which tz.date("*t", t, zone)
\* returns a table d, tz.time(d) without a timezone argument returns
\* exactly t.
C4_RoundTripOff == RoundTripOff => last.res = prev.t

\* the offset given is taken off the composed time of the call, and the
\* result is nil when that is below LUATZ_J0_TIME
OffsetTaken(call, off) ==
    call.res = IF TLt(TSubInt(call.c[1], off), LUATZ_J0_TIME) THEN Nil
               ELSE Some(TSubInt(call.c[1], off))

\* the call has resolved the zone of this name and has taken off the offset
\* that the reverse lookup for its composed time finds there; a zone without
\* a file raises an error
ZoneUsed(call, name) ==
    IF ~files[name].exists THEN call.err = "unknown timezone"
    ELSE /\ call.err = ""
         /\ call.zone = Some(name)
         /\ name \in DOMAIN cache
         /\ call.find = tz_find(cache[name].data, call.c[1],
                                TimeFields(call.tab).isdst, 1)
         /\ OffsetTaken(call, call.find.type.gmtoff)

\* the call has resolved no zone and has taken off the off field of its
\* table
OffUsed(call) ==
    /\ call.err = ""
    /\ call.zone = Nil
    /\ call.find = NoFind
    /\ OffsetTaken(call, call.tab.off[1])

\* a call of tz.time with a table that has composed a civil time
Composed(call) == call.op = "time" /\ call.c # Nil

IsdstPair ==
    /\ Reverse(last)
    /\ Reverse(prev)
    /\ last.tz = prev.tz
    /\ last.c = prev.c
    /\ last.tab = [prev.tab EXCEPT !.isdst = last.tab.isdst]

\* C6: for every zone and every civil time outside the intervals that occur
\* twice because the offset decreased at a transition, tz.time returns the
\* same instant whatever the isdst field of the table is.
C6_IsdstOnlyWhenRepeated ==
    (IsdstPair /\ ~Repeated(Resolved(last), last.c[1]))
    => last.res = prev.res

\* C6, witness: behind a transition that raises the offset from a non-DST
\* type to a DST type, isdst = false (the flag of the type before, not of
\* the type found) has given the same instant as no isdst field
C6_Witness ==
    /\ IsdstPair
    /\ ~Repeated(Resolved(last), last.c[1])
    /\ prev.tab.isdst = Nil
    /\ last.tab.isdst = Some(FALSE)
    /\ last.find.found > 0
    /\ TypeAt(Resolved(last), last.find.found).isdst = 1
    /\ TypeAt(Resolved(last), last.find.found - 1).isdst = 0
    /\ TypeAt(Resolved(last), last.find.found - 1).gmtoff
          < TypeAt(Resolved(last), last.find.found).gmtoff
    /\ last.res = prev.res
    /\ last.res # Nil

\* transition k raises the offset from a to b > a and c is in
\* [T + a - 1, T + b): the skipped civil times and the second before them
GapAt(data, c, k) ==
    /\ OffsetBefore(data, k) < TypeAt(data, k).gmtoff
    /\ TLe(TAddInt(TimeValue(data, k), OffsetBefore(data, k) - 1), c)
    /\ TLt(c, LocalAt(data, k))

\* transition k raises the offset from a to b > a and c is T + b, the first
\* civil time after the gap
GapEndAt(data, c, k) ==
    /\ OffsetBefore(data, k) < TypeAt(data, k).gmtoff
    /\ c = LocalAt(data, k)

\* the call has returned c - a for the offset a before transition k
PreOffsetTaken(call, k) ==
    call.res = Some(TSubInt(call.c[1], OffsetBefore(Resolved(call), k)))

\* C7 as stated: in a zone with strictly ascending transitions, for every
\* transition at T that raises the offset from a to b > a, tz.time returns
\* c - a for every civil time c with T + a <= c < T + b and for c = T + a - 1,
\* and returns T for c = T + b.
C7_GapAsStated ==
    (Reverse(last) /\ StrictlyAscending(Resolved(last))) =>
       \A k \in 0..(Resolved(last).timecnt - 1) :
          /\ GapAt(Resolved(last), last.c[1], k) => PreOffsetTaken(last, k)
          /\ GapEndAt(Resolved(last), last.c[1], k)
             => last.res = Some(TimeValue(Resolved(last), k))

\* C7 as amended: the same, for every zone, provided that on their own
\* clocks the transitions before this one are at or before c and the others
\* are after c, and that c is not in the repeated interval of the transition
\* before this one; and for c = T + b provided that on their own clocks the
\* transitions up to this one are at or before c and the later ones after c.
C7_Gap ==
    Reverse(last) =>
       \A k \in 0..(Resolved(last).timecnt - 1) :
          /\ (/\ GapAt(Resolved(last), last.c[1], k)
              /\ EndsAt(Resolved(last), last.c[1], k - 1)
              /\ ~(k > 0 /\ RepeatedAt(Resolved(last), last.c[1], k - 1)))
             => PreOffsetTaken(last, k)
          /\ (/\ GapEndAt(Resolved(last), last.c[1], k)
              /\ EndsAt(Resolved(last), last.c[1], k))
             => last.res = Some(TimeValue(Resolved(last), k))

\* C7, witness: the first skipped civil second of a transition that is not
\* the first of its zone has given the instant T of the transition
C7_Witness ==
    /\ Reverse(last)
    /\ \E k \in 1..(Resolved(last).timecnt - 1) :
          /\ GapAt(Resolved(last), last.c[1], k)
          /\ EndsAt(Resolved(last), last.c[1], k - 1)
          /\ ~RepeatedAt(Resolved(last), last.c[1], k - 1)
          /\ last.c[1] = TAddInt(TimeValue(Resolved(last), k),
                                 OffsetBefore(Resolved(last), k))
          /\ last.res = Some(TimeValue(Resolved(last), k))

\* the seconds in one unit of a field of the table
Unit(f) ==
    IF f = "day" THEN SECS_PER_DAY ELSE IF f = "hour" THEN 3600
    ELSE IF f = "min" THEN 60 ELSE 1

\* tz.time has been called on the table of the call before with k added to
\* the field f, and both calls have composed a civil time
ShiftPair(f, k) ==
    /\ Composed(last)
    /\ Composed(prev)
    /\ prev.tab[f] # Nil
    /\ ~AddOvf(prev.tab[f][1], k)
    /\ last.tab = [prev.tab EXCEPT ![f] = Some(prev.tab[f][1] + k)]

\* C8: for fixed year and month, adding k to day adds 86400 * k to the
\* composed time of tz.time, adding k to hour adds 3600 * k, adding k to min
\* adds 60 * k and adding k to sec adds k.
C8_Absorbed ==
    \A f \in {"day", "hour", "min", "sec"}, k \in CalShifts :
       ShiftPair(f, k)
       => last.c = Some(TAddInt(prev.c[1], k * Unit(f)))

\* the year of the table is so far below LUATZ_J0_YEAR that the month does
\* not lift it to LUATZ_J0_YEAR
YearBelowFloor(tab) ==
    tab.year[1] < LUATZ_J0_YEAR - ((tab.month[1] - 1) \div 12)

\* a call of tz.time with a table that has day, month and year
Dated(call) ==
    /\ call.op = "time"
    /\ call.tab.day # Nil /\ call.tab.month # Nil /\ call.tab.year # Nil

\* C9: for every month and year, the pair (year', month') that tz.time
\* composes from has 1 <= month' <= 12 and names the same month as
\* (year, month); and the composed time is that of the call with
\* (year', month') in the table.
C9_MonthNormalised ==
    (/\ Dated(last)
     /\ ~AddOvf(last.tab.year[1], (last.tab.month[1] - 1) \div 12))
    => /\ last.norm = Some(<<CanonMonth(last.tab.year[1],
                                        last.tab.month[1]).year,
                             CanonMonth(last.tab.year[1],
                                        last.tab.month[1]).month>>)
       /\ (/\ Dated(prev)
           /\ prev.tab.month[1] \notin 1..12
           /\ ~AddOvf(prev.tab.year[1], (prev.tab.month[1] - 1) \div 12)
           /\ last.tab =
                 [prev.tab EXCEPT
                     !.year = Some(CanonMonth(prev.tab.year[1],
                                              prev.tab.month[1]).year),
                     !.month = Some(CanonMonth(prev.tab.year[1],
                                               prev.tab.month[1]).month)])
          => last.c = prev.c

\* the offset the call has resolved: that of the type found in its zone, or
\* the off field of its table
ResolvedOffset(call) ==
    IF call.zone # Nil THEN call.find.type.gmtoff ELSE call.tab.off[1]

\* C10: tz.time returns nil when the normalised year is below -4713 and
\* when the composed time minus the resolved offset is below J0_TIME, and
\* otherwise returns that value; it never returns a value below J0_TIME;
\* year -4713, month 11, day 24, hour 0, off 0 give J0_TIME, and with
\* sec -1 nil.
C10_DomainFloor ==
    (Dated(last) /\ last.err = "") =>
       /\ YearBelowFloor(last.tab) => last.res = Nil
       /\ ~YearBelowFloor(last.tab)
          => last.c # Nil /\ OffsetTaken(last, ResolvedOffset(last))
       /\ last.res # Nil => ~TLt(last.res[1], LUATZ_J0_TIME)
       /\ (last.tz = Nil /\ last.tab = Utc(-4713, 11, 24, 0, 0, 0))
          => last.res = Some(LUATZ_J0_TIME)
       /\ (last.tz = Nil /\ last.tab = Utc(-4713, 11, 24, 0, 0, -1))
          => last.res = Nil

\* a finished call of tz.date that has raised no error
DateDone(call) == call.op = "date" /\ call.err = ""

\* the local time of a call of tz.date: t plus the offset of the type found
LocalTime(call) == TAddInt(call.t[1], call.find.type.gmtoff)

\* C11: tz.date returns nil exactly when t plus the offset found by the
\* forward lookup is below J0_TIME; in UTC, t = J0_TIME gives year -4713,
\* month 11, day 24, 00:00:00, and t = J0_TIME - 1 gives nil.
C11_DateFloor ==
    DateDone(last) =>
       /\ last.res = Nil <=> TLt(LocalTime(last), LUATZ_J0_TIME)
       /\ (last.zone = Some(LUATZ_UTC) /\ last.t = Some(LUATZ_J0_TIME))
          => /\ last.res # Nil
             /\ <<last.tab.year, last.tab.month, last.tab.day>>
                   = <<Some(-4713), Some(11), Some(24)>>
             /\ <<last.tab.hour, last.tab.min, last.tab.sec>>
                   = <<Some(0), Some(0), Some(0)>>
       /\ (/\ last.zone = Some(LUATZ_UTC)
           /\ last.t = Some(TSubInt(LUATZ_J0_TIME, 1)))
          => last.res = Nil

\* the first type in file order that is not daylight saving time, or the
\* first type when every type is
DefaultType(data) ==
    IF \E i \in 1..Len(data.types) : data.types[i].isdst = 0
    THEN data.types[CHOOSE i \in 1..Len(data.types) :
                       /\ data.types[i].isdst = 0
                       /\ \A j \in 1..(i - 1) : data.types[j].isdst # 0]
    ELSE data.types[1]

\* t is before every transition of the zone, or the zone has none
BeforeAll(data, t) ==
    \A i \in 1..Len(data.timevalues) : TLt(t, data.timevalues[i])

\* a finished forward lookup: tz.info or tz.date has resolved a zone
ForwardDone(call) ==
    call.op \in {"info", "date"} /\ call.err = "" /\ call.zone # Nil

\* C12: when t precedes every transition of the zone, or the zone has no
\* transition, the type found is the first type in file order whose isdst
\* is false, or the first type if every type is daylight saving time.
C12_DefaultType ==
    (ForwardDone(last) /\ BeforeAll(Resolved(last), last.t[1]))
    => last.find.type = DefaultType(Resolved(last))

\* a finished call that has looked up a type in the zone it resolved
LookedUp(call) ==
    call.op \in {"info", "date", "time"} /\ call.err = "" /\ call.zone # Nil

\* C13: in a zone without transitions the forward lookup and the reverse
\* lookup with isdst absent, true or false find the default type, and read
\* no element of the empty timevalues and timetypes arrays.
C13_NoTransitions ==
    (LookedUp(last) /\ Len(Resolved(last).timevalues) = 0)
    => /\ last.find.type = DefaultType(Resolved(last))
       /\ ~last.find.oob

\* the step is a call: a fresh one, or one that follows up the call before
CallStep ==
    /\ last'.op # "none"
    /\ last.op = "none" \/ (prev.op = "none" /\ prev' = last)

\* the step is a call that resolves a zone name
Resolves == CallStep /\ last'.req # Nil

\* C14: tz_read completes at most once for each zone name; an entry of the
\* cache is never replaced or removed; and a call that resolves a name
\* that is in the cache returns the object of the entry and calls neither
\* stat nor fopen.
C14_CacheIdentity ==
    [][/\ \A name \in DOMAIN cache :
            name \in DOMAIN cache' /\ cache'[name] = cache[name]
       /\ \A name \in DOMAIN loads' : loads'[name] <= 1
       /\ (Resolves /\ last'.req[1] \in DOMAIN cache)
          => /\ last'.err = ""
             /\ last'.obj = cache[last'.req[1]].obj
             /\ last'.io = <<>>]_vars

\* a call has returned the object of "Z" from the cache after the host has
\* removed the file
C14_Witness ==
    /\ last.req = Some("Z") /\ last.err = ""
    /\ last.obj = Some(<<"Z", 1>>) /\ last.io = <<>>
    /\ "Z" \in DOMAIN cache /\ loads["Z"] = 1
    /\ ~files["Z"].exists

\* the step is a call that resolves again the name for which the call
\* before has failed
RetryStep ==
    /\ CallStep /\ prev' = last
    /\ last.err # "" /\ last.req # Nil /\ last'.req = last.req

\* C15: a call whose resolve fails leaves the cache as it was and returns
\* no object; the failed name is not in the cache, and resolving it again
\* checks and reads its file again: with a good file in place the name is
\* loaded and published, with a file that fails in tz_read stat and fopen
\* are called again, and a name that was rejected is rejected again.
C15_FailurePublishesNothing ==
    [][/\ (CallStep /\ last'.err # "" /\ last'.req # Nil)
          => /\ cache' = cache /\ loads' = loads
             /\ last'.obj = Nil /\ last'.res = Nil
       /\ RetryStep
          => /\ last.req[1] \notin DOMAIN cache
             /\ (last.req = Some("Z") /\ files["Z"] \in {StdFile, DstFile})
                => /\ last'.err = "" /\ last'.io = <<"stat", "fopen">>
                   /\ last'.obj = Some(<<"Z", 1>>)
                   /\ "Z" \in DOMAIN cache' /\ loads'["Z"] = 1
             /\ (/\ last.req = Some("Z")
                 /\ \/ files["Z"].fault \in Faults \ {"notreg"}
                    \/ files["Z"] \in {BadMagicFile, BadVersionFile,
                                       BadCountsFile})
                => last'.err # "" /\ last'.io = <<"stat", "fopen">>
             /\ last.io = <<>>
                => last'.err = last.err /\ last'.io = <<>>]_vars

\* "Z" is loaded by the call that follows a call for which tz_read failed
C15_Witness ==
    /\ prev.req = Some("Z") /\ prev.err # ""
    /\ prev.io = <<"stat", "fopen">>
    /\ last.req = Some("Z") /\ last.err = ""
    /\ last.io = <<"stat", "fopen">>
    /\ "Z" \in DOMAIN cache

\* a zone object as tz_find needs it: it has a type, and every transition
\* has one of its types
WellFormed(data) ==
    /\ Len(data.types) > 0
    /\ Len(data.timetypes) = Len(data.timevalues)
    /\ \A i \in 1..Len(data.timetypes) :
          data.timetypes[i] \in 0..(Len(data.types) - 1)

Rejected(name) ==
    \/ Len(Bytes(name)) > 107
    \/ \E i \in 1..Len(Bytes(name)) :
          \/ ~(isalnum(Bytes(name)[i]) \/ ispunct(Bytes(name)[i]))
          \/ Bytes(name)[i] = 46

\* C17: on a cache miss a name other than 'localtime' that is longer than
\* 107 bytes, or has a byte that is neither alphanumeric nor punctuation,
\* or has a '.', is rejected before any file is accessed; the path of an
\* accepted name is "/usr/share/zoneinfo/" and the name, fits the 128 bytes
\* of the buffer with its terminator and has no '.'; a path that does not
\* exist or is no regular file gives 'unknown timezone'; and 'localtime' is
\* looked up at "/etc/localtime" without a check of the name.
C17_NameValidation ==
    [][(Resolves /\ last'.req[1] \notin DOMAIN cache)
       => /\ (last'.req # Some(LUATZ_LOCALTIME) /\ Rejected(last'.req[1]))
             => /\ last'.err \in {"timezone too long", "malformed timezone"}
                /\ last'.io = <<>>
          /\ (last'.req # Some(LUATZ_LOCALTIME) /\ ~Rejected(last'.req[1]))
             => /\ last'.io # <<>>
                /\ Filename(last'.req[1])
                      = LUATZ_ZONEINFO \o Bytes(last'.req[1])
                /\ Len(Filename(last'.req[1])) + 1 <= FILENAME_SIZE
                /\ \A i \in 1..Len(Filename(last'.req[1])) :
                      Filename(last'.req[1])[i] # 46
          /\ last'.req = Some(LUATZ_LOCALTIME)
             => /\ last'.io # <<>>
                /\ Filename(last'.req[1]) = LUATZ_LOCALFILE
          /\ (/\ last'.io # <<>>
              /\ \/ ~files[last'.req[1]].exists
                 \/ files[last'.req[1]].fault = "notreg")
             => last'.err = "unknown timezone" /\ last'.io = <<"stat">>
          /\ (/\ last'.io # <<>>
              /\ files[last'.req[1]].exists
              /\ files[last'.req[1]].fault # "notreg")
             => last'.io = <<"stat", "fopen">>]_vars

\* the name of 107 bytes has been accepted and its file loaded
C17_Witness ==
    /\ last.req = Some(Name107) /\ last.err = ""
    /\ last.io = <<"stat", "fopen">>
    /\ Name107 \in DOMAIN cache

\* the number of days of a month of the proleptic Gregorian calendar
MonthLength(year, month) ==
    IF month = 2
    THEN IF year % 4 = 0 /\ (year % 100 # 0 \/ year % 400 = 0) THEN 29
         ELSE 28
    ELSE IF month \in {4, 6, 9, 11} THEN 30 ELSE 31

\* the days from 1970-01-01 to a date of the proleptic Gregorian calendar,
\* counted in years that begin with March
MarchYear(year, month) == IF month <= 2 THEN year - 1 ELSE year
MarchDay(month, day) ==
    (153 * (IF month > 2 THEN month - 3 ELSE month + 9) + 2) \div 5 + day - 1
DayNumber(year, month, day) ==
    365 * MarchYear(year, month) + MarchYear(year, month) \div 4
    - MarchYear(year, month) \div 100 + MarchYear(year, month) \div 400
    + MarchDay(month, day) - 719468

\* the days of the year up to and with a date
DayOfYear(year, month, day) ==
    IF month = 1 THEN day
    ELSE DayNumber(year, month, day) - DayNumber(year, 1, 1) + 1

\* a call of tz.date that has returned a table
DateMade(call) == DateDone(call) /\ call.res # Nil

\* the fields of the table are the clock and the date of the local time c
Decomposed(tab, c) ==
    /\ tab.sec[1] \in 0..59 /\ tab.min[1] \in 0..59 /\ tab.hour[1] \in 0..23
    /\ tab.hour[1] * 3600 + tab.min[1] * 60 + tab.sec[1] = c.s
    /\ tab.month[1] \in 1..12
    /\ tab.day[1] \in 1..MonthLength(tab.year[1], tab.month[1])
    /\ c.e = 0
    /\ DayNumber(tab.year[1], tab.month[1], tab.day[1]) = c.d
    /\ tab.yday[1] = DayOfYear(tab.year[1], tab.month[1], tab.day[1])

\* C18: for every local time t >= J0_TIME the fields of tz.date are in
\* their ranges (sec and min 0..59, hour 0..23, month 1..12, day 1 to the
\* length of the month), hour * 3600 + min * 60 + sec is t mod 86400 taken
\* non-negative, the date is floor(t / 86400) days from 1970-01-01, and
\* yday is the lengths of the months before plus day; t = -1 is 1969-12-31
\* 23:59:59.
C18_Decompose ==
    DateMade(last) =>
       /\ Decomposed(last.tab, last.c[1])
       /\ (last.zone = Some(LUATZ_UTC) /\ last.t = Some(TimeOfInt(-1)))
          => /\ <<last.tab.year, last.tab.month, last.tab.day>>
                   = <<Some(1969), Some(12), Some(31)>>
             /\ <<last.tab.hour, last.tab.min, last.tab.sec>>
                   = <<Some(23), Some(59), Some(59)>>

\* the day of the week, 1 for Sunday, of the local time c: the Julian day
\* number plus one, modulo 7, plus one; an era has 106751991167300 days,
\* which is 3 modulo 7
Weekday(c) ==
    (((c.e * 3) + (c.d % 7) + ((LUATZ_EPOCH + 1) % 7)) % 7) + 1

\* two calls of tz.date whose local times are a day apart
DayApart(a, b) ==
    /\ DateMade(a) /\ DateMade(b)
    /\ b.c[1] = TAddInt(a.c[1], SECS_PER_DAY)

\* C19: for every local time t >= J0_TIME, wday is in 1..7 and is the
\* Julian day number plus one, modulo 7, plus one; it is 5 for 1970-01-01,
\* 7 for 2014-02-15 and 1 for 2014-03-30; and it advances by one, from 7 to
\* 1, when t grows by 86400.
C19_Weekday ==
    /\ DateMade(last)
       => /\ last.tab.wday[1] \in 1..7
          /\ last.tab.wday[1] = Weekday(last.c[1])
          /\ (last.zone = Some(LUATZ_UTC) /\ last.t = Some(TimeOfInt(0)))
             => last.tab.wday = Some(5)
          /\ (/\ last.zone = Some(LUATZ_UTC)
              /\ last.t = Some(TimeOfInt(1392456870)))
             => last.tab.wday = Some(7)
          /\ (/\ last.zone = Some(LUATZ_UTC)
              /\ last.t = Some(TimeOfInt(1396141200)))
             => last.tab.wday = Some(1)
    /\ DayApart(prev, last)
       => last.tab.wday[1] = (prev.tab.wday[1] % 7) + 1

\* k is the greatest index whose transition is at or before c on the clock
\* of its own type, or -1 when there is no such transition
GreatestAt(data, c, k) ==
    /\ k >= 0 => TLe(LocalAt(data, k), c)
    /\ \A i \in (k + 1)..(data.timecnt - 1) : ~TLe(LocalAt(data, i), c)

\* C20 as stated: in a zone with strictly ascending transition instants,
\* for every civil time t the reverse search ends, before isdst is looked
\* at, at the greatest index k with timevalues[k] <= t - gmtoff of the type
\* of transition k, or at -1 when no transition has that.
C20_ReverseAsStated ==
    (Reverse(last) /\ StrictlyAscending(Resolved(last)))
    => GreatestAt(Resolved(last), last.c[1], last.find.found)

\* C20 as amended: the same, for every zone, provided that the transitions
\* with timevalues[i] <= t - gmtoff of their type come before all the
\* others.
C20_Reverse ==
    Reverse(last) =>
       \A k \in -1..(Resolved(last).timecnt - 1) :
          EndsAt(Resolved(last), last.c[1], k)
          => /\ last.find.found = k
             /\ GreatestAt(Resolved(last), last.c[1], last.find.found)

\* C20, witness: between two transitions of different offsets, the second
\* at its very civil second, the search has ended at the second
C20_Witness ==
    /\ Reverse(last) /\ StrictlyAscending(Resolved(last))
    /\ Resolved(last).timecnt = 2
    /\ TypeAt(Resolved(last), 0).gmtoff # TypeAt(Resolved(last), 1).gmtoff
    /\ LocalAt(Resolved(last), 1) = last.c[1]
    /\ EndsAt(Resolved(last), last.c[1], 1)
    /\ last.find.found = 1

\* C23: every zone object in the cache has strictly ascending transition
\* instants, whatever the file it was loaded from.
C23_CacheAscending ==
    \A name \in DOMAIN cache : StrictlyAscending(cache[name].data)

\* C27: every array read of tz_find is in bounds, for every loaded zone,
\* every t, both directions and every isdst: the lookup of a finished call
\* has read no element -1 of timetypes, the index it ended at is in
\* -1..timecnt-1, and the type it returned is a type of the zone.
C27_FindInBounds ==
    LookedUp(last)
    => /\ ~last.find.oob
       /\ last.find.found \in -1..(Resolved(last).timecnt - 1)
       /\ last.find.upper \in -1..(Resolved(last).timecnt - 1)
       /\ \E i \in 1..Resolved(last).typecnt :
             last.find.type = Resolved(last).types[i]

\* a call of tz.date in the supported domain: the local time, t plus the
\* offset found, fits int64_t and is at or above LUATZ_J0_TIME
DateInDomain(call) ==
    /\ DateDone(call)
    /\ Fits64(LocalTime(call))
    /\ ~TLt(LocalTime(call), LUATZ_J0_TIME)

\* a call of tz.time in the supported domain: the table has a date whose
\* year is at or above LUATZ_J0_YEAR, and the call has returned a time
TimeInDomain(call) ==
    /\ Dated(call) /\ call.err = ""
    /\ call.tab.year[1] >= LUATZ_J0_YEAR
    /\ call.res # Nil

\* C25: no int of the calendar arithmetic overflows in the supported domain:
\* not in tz.date for a local time from LUATZ_J0_TIME up that fits int64_t,
\* not in tz.time for a year from -4713 up whose result fits int64_t.
C25_NoIntOverflow ==
    (DateInDomain(last) \/ TimeInDomain(last)) => ~last.ub

\* on their own clocks the transitions of the zone are ascending
LocalAscending(data) ==
    \A i \in 0..(data.timecnt - 2) :
       TLe(LocalAt(data, i), LocalAt(data, i + 1))

\* c lies in the civil times that transition k skips by raising the offset
\* from a to b > a: T + a <= c < T + b
InGap(data, c) ==
    \E k \in 0..(data.timecnt - 1) :
       /\ OffsetBefore(data, k) < TypeAt(data, k).gmtoff
       /\ TLe(TAddInt(TimeValue(data, k), OffsetBefore(data, k)), c)
       /\ TLt(c, LocalAt(data, k))

\* the fields tz.time reads from the table are a canonical civil date and
\* time
Canonical(tab) ==
    /\ tab.year # Nil /\ tab.month # Nil /\ tab.day # Nil
    /\ TimeFields(tab).month \in 1..12
    /\ TimeFields(tab).day
          \in 1..MonthLength(TimeFields(tab).year, TimeFields(tab).month)
    /\ TimeFields(tab).hour \in 0..23
    /\ TimeFields(tab).min \in 0..59
    /\ TimeFields(tab).sec \in 0..59

\* tz.date("*t", t, zone) has been called on the instant t that tz.time has
\* returned for a canonical table and the same zone
RoundTripCivil ==
    /\ DateDone(last)
    /\ Reverse(prev)
    /\ prev.res # Nil
    /\ last.t = prev.res
    /\ last.tz = prev.tz
    /\ Canonical(prev.tab)

\* the table has the date and the clock that tz.time has read from tab
SameCivil(date, tab) ==
    \A f \in {"year", "month", "day", "hour", "min", "sec"} :
       date[f] = Some(TimeFields(tab)[f])

\* C29: for every zone whose transitions are ascending on their own clocks
\* and every canonical civil time c at or after the first transition and
\* outside the skipped civil times, tz.date("*t", tz.time(c, zone), zone)
\* returns the date and clock of c, whatever the isdst field is; the offset
\* taken off by tz.time is the offset of the forward lookup at its result.
C29_RoundTripCivil ==
    (/\ RoundTripCivil
     /\ LocalAscending(Resolved(prev))
     /\ Resolved(prev).timecnt > 0
     /\ TLe(LocalAt(Resolved(prev), 0), prev.c[1])
     /\ ~InGap(Resolved(prev), prev.c[1]))
    => /\ last.res # Nil
       /\ SameCivil(last.tab, prev.tab)
       /\ last.find.type.gmtoff = prev.find.type.gmtoff

\* the call has gone as far as tz_read, and fopen has given it the file
Opened(call) ==
    /\ call.op # "none"
    /\ call.io = <<"stat", "fopen">>
    /\ files[call.req[1]].fault # "open"

\* the file from which the call has read
FileRead(call) == files[call.req[1]]

\* the call has made no allocation for the arrays
NoAlloc(call) == \A i \in 1..Len(call.fio) : call.fio[i] # "calloc"

\* one of the six counts of the header is negative or above the file size
BadCount(h, size) == \E c \in Counts : h[c] < 0 \/ h[c] > size

\* C21: when the first header can be read, the load is rejected before any
\* array is allocated, with "TZ file magic mismatch" for another magic, with
\* "unsupported TZ file version" for a version other than 0, '2' and '3',
\* and with "malformed TZ file" when one of the six counts (isutcnt,
\* isstdcnt, leapcnt, timecnt, typecnt, charcnt) is negative or larger than
\* the file.
C21_HeaderValidation ==
    (/\ Opened(last)
     /\ FileRead(last).fault # "header"
     /\ FileRead(last).size >= TZ_HEADER_SIZE)
    => /\ FileRead(last).header.magic # "TZif"
          => last.err = "TZ file magic mismatch" /\ NoAlloc(last)
       /\ (/\ FileRead(last).header.magic = "TZif"
           /\ FileRead(last).header.version
                 \notin {VERSION_1, VERSION_2, VERSION_3})
          => last.err = "unsupported TZ file version" /\ NoAlloc(last)
       /\ (/\ FileRead(last).header.magic = "TZif"
           /\ FileRead(last).header.version
                 \in {VERSION_1, VERSION_2, VERSION_3}
           /\ BadCount(FileRead(last).header, FileRead(last).size))
          => last.err = "malformed TZ file" /\ NoAlloc(last)

\* the header whose counts tz_read takes for the arrays: the second one of
\* a file of version 2 or 3
DataHeader(file) ==
    IF file.header.version >= VERSION_2 /\ file.second # Nil
    THEN file.second[1].header
    ELSE file.header

\* the file has no type, or one of its transitions has a type index that is
\* not below typecnt
BadTypes(file) ==
    \/ DataHeader(file).typecnt = 0
    \/ \E i \in 1..Len(file.timetypes) :
          i <= DataHeader(file).timecnt
          /\ file.timetypes[i] >= DataHeader(file).typecnt

\* C22: every zone in the cache has at least one type and every type index
\* of its transitions is below typecnt; the load of a file with typecnt = 0
\* or with a type index >= typecnt raises an error and publishes nothing.
C22_TypesInRange ==
    /\ \A name \in DOMAIN cache :
          /\ cache[name].data.typecnt >= 1
          /\ Len(cache[name].data.types) = cache[name].data.typecnt
          /\ Len(cache[name].data.timetypes) = cache[name].data.timecnt
          /\ \A i \in 1..cache[name].data.timecnt :
                cache[name].data.timetypes[i]
                   \in 0..(cache[name].data.typecnt - 1)
    /\ (Opened(last) /\ BadTypes(FileRead(last)))
       => /\ last.err # ""
          /\ last.req[1] \notin DOMAIN cache

\* C22, witness: a file with two types and a transition of type index 2 has
\* been rejected after its arrays were read, and "Z" is not in the cache
C22_Witness ==
    /\ Opened(last)
    /\ FileRead(last).header.typecnt = 2
    /\ FileRead(last).timetypes = <<2>>
    /\ last.err = "malformed TZ file"
    /\ ~NoAlloc(last)
    /\ "Z" \notin DOMAIN cache

\* the int32_t that the big-endian word w stores
Int32(w) ==
    (IF w[1] >= 128 THEN w[1] - 256 ELSE w[1]) * 16777216
    + w[2] * 65536 + w[3] * 256 + w[4]

\* C24: every transition of a zone loaded from a version 1 file is the
\* sign-extended 32-bit value the file stores at its place (-1 for
\* 0xFFFFFFFF), whatever the number of transitions the array is widened
\* over.
C24_SignExtended ==
    \A name \in DOMAIN cache :
       files[name].header.version = VERSION_1
       => \A i \in 1..cache[name].data.timecnt :
             cache[name].data.timevalues[i]
                = TimeOfInt(Int32(files[name].words[i]))

\* the number of fclose calls among the stdio calls
Closes(fio) == Cardinality({i \in 1..Len(fio) : fio[i] = "fclose"})

\* C26: on every path through tz_read after fopen has succeeded (the normal
\* return and each error exit) f is closed exactly once, by the last stdio
\* call made on it; a call that has opened no file has made no stdio call.
C26_ClosedOnce ==
    last.op # "none"
    => IF Opened(last)
       THEN /\ Closes(last.fio) = 1
            /\ last.fio[Len(last.fio)] = "fclose"
       ELSE last.fio = <<>>

\* C26, witness: in a file of version 2 the place fseek went to holds no
\* header; the second tz_readheader has closed f and raised the error
C26_Witness ==
    /\ Opened(last)
    /\ FileRead(last).header.version = VERSION_2
    /\ last.err = "TZ file magic mismatch"
    /\ last.fio = <<"fread", "fseek", "fread", "fclose">>

\* the string at &data->chars[abbrind] lies in the pool: abbrind is below
\* charcnt and a NUL follows at or after it
InPool(data, abbrind) ==
    /\ abbrind < data.charcnt
    /\ \E p \in abbrind..(data.charcnt - 1) : data.chars[p + 1] = 0

\* C28: for every zone in the cache, the abbreviation index of every type
\* is below charcnt and the pool has a NUL at or after it, and so the
\* abbreviation of the type that tz.info or tz.date has found is read inside
\* the pool.
C28_AbbrevInPool ==
    /\ \A name \in DOMAIN cache :
          \A i \in 1..cache[name].data.typecnt :
             InPool(cache[name].data, cache[name].data.types[i].abbrind)
    /\ (last.op \in {"info", "date"} /\ last.err = "" /\ last.zone # Nil)
       => InPool(Resolved(last), last.find.type.abbrind)

=============================================================================
